---- MODULE Spec2Model ----
(***************************************************************************)
(* GrammarPal (src/main.py): the phrase-matching engine (GrammarEngine)    *)
(* and the keystroke state machine with its suggestion session             *)
(* (GrammarPalApp, SuggestionPopup).                                       *)
(*                                                                         *)
(* Text is a sequence of one-character strings.  Scores are Python floats  *)
(* (IEEE 754 doubles), written <<numerator, denominator, side>>.           *)
(***************************************************************************)
EXTENDS Integers, Sequences, FiniteSets, TLC

(***************************************************************************)
(* Program constants                                                       *)
(***************************************************************************)
MIN_SUGGESTIONS == 20
MAX_SUGGESTIONS == 30
MIN_PHRASE_LENGTH == 3

WORD_BOUNDARIES ==
  {"space", "enter", "tab", ".", ",", "?", "!", ";", ":", "\n", ")", "(", "[",
   "]", "{", "}", "/", "\\", "|", "\"", "'"}

(***************************************************************************)
(* Character classes (str.lower, str.isdigit, str.isprintable, re \w \s)   *)
(***************************************************************************)
LowerLetters == {"a", "b", "c", "x", "y", "z"}
UpperLetters == {"A", "B"}
Digits == {"3"}
SpaceChars == {" ", "\t", "\n"}
HyphenChars == {"-", "_", "'"}

lower(c) == IF c = "A" THEN "a" ELSE IF c = "B" THEN "b" ELSE c
isdigit(c) == c \in Digits
isprintable(c) == c \notin {"\t", "\n"}
isspace(c) == c \in SpaceChars
isword(c) == c \in LowerLetters \cup UpperLetters \cup Digits \cup {"_"}

\* str.lower()
lower_text(t) == [i \in DOMAIN t |-> lower(t[i])]

(***************************************************************************)
(* Generic sequence helpers                                                *)
(***************************************************************************)
Range(s) == {s[i] : i \in DOMAIN s}
Contains(s, x) == \E i \in DOMAIN s : s[i] = x
Take(s, n) == SubSeq(s, 1, IF n < Len(s) THEN n ELSE Len(s))
LastN(s, n) == SubSeq(s, Len(s) - n + 1, Len(s))

RECURSIVE JoinSpace(_)
\* ' '.join(words)
JoinSpace(ws) ==
  IF ws = <<>> THEN <<>>
  ELSE IF Len(ws) = 1 THEN ws[1]
  ELSE ws[1] \o <<" ">> \o JoinSpace(Tail(ws))

RECURSIVE lstrip(_)
lstrip(t) == IF t # <<>> /\ isspace(Head(t)) THEN lstrip(Tail(t)) ELSE t

RECURSIVE rstrip(_)
rstrip(t) ==
  IF t # <<>> /\ isspace(t[Len(t)]) THEN rstrip(SubSeq(t, 1, Len(t) - 1)) ELSE t

\* str.strip()
strip(t) == rstrip(lstrip(t))

RECURSIVE SplitAcc(_, _, _)
\* str.split(): the maximal runs of non-whitespace characters, in order
SplitAcc(t, cur, acc) ==
  IF t = <<>> THEN (IF cur = <<>> THEN acc ELSE Append(acc, cur))
  ELSE IF isspace(Head(t))
       THEN SplitAcc(Tail(t), <<>>, IF cur = <<>> THEN acc ELSE Append(acc, cur))
       ELSE SplitAcc(Tail(t), Append(cur, Head(t)), acc)

split(t) == SplitAcc(t, <<>>, <<>>)

\* str.startswith
startswith(k, p) == Len(p) <= Len(k) /\ SubSeq(k, 1, Len(p)) = p

(***************************************************************************)
(* GrammarEngine.normalize_text                                            *)
(***************************************************************************)
RECURSIVE CollapseSpaces(_, _)
\* re.sub(r"\s+", " ", text); inRun: the previous character was whitespace
CollapseSpaces(t, inRun) ==
  IF t = <<>> THEN <<>>
  ELSE IF isspace(Head(t))
       THEN (IF inRun THEN <<>> ELSE <<" ">>) \o CollapseSpaces(Tail(t), TRUE)
       ELSE <<Head(t)>> \o CollapseSpaces(Tail(t), FALSE)

\* normalize_text with the whitespace runs collapsed before the hyphens are
\* replaced
normalize_text_collapse_first(text) ==
  LET t1 == CollapseSpaces(lower_text(text), FALSE)
      t2 == [i \in DOMAIN t1 |-> IF t1[i] \in HyphenChars THEN " " ELSE t1[i]]
      t3 == SelectSeq(t2, LAMBDA c : isword(c) \/ isspace(c))
  IN strip(t3)

normalize_text(text) ==
  LET t1 == lower_text(text)
      t2 == [i \in DOMAIN t1 |-> IF t1[i] \in HyphenChars THEN " " ELSE t1[i]]
      t3 == SelectSeq(t2, LAMBDA c : isword(c) \/ isspace(c))
      t4 == CollapseSpaces(t3, FALSE)
  IN strip(t4)

(***************************************************************************)
(* Scores: Python floats.  <<n, d, 0>> is the double nearest to n / d (the *)
(* value of the float division n / d and of a configured literal);         *)
(* <<n, d, 1>> and <<n, d, -1>> are doubles just above and just below it.  *)
(* Two fractions of the sizes met here that differ, differ by far more     *)
(* than a rounding error, so floats compare as their fractions do, and on  *)
(* equal fractions by their side.                                          *)
(***************************************************************************)
Frac(n, d) == <<n, d, 0>>
FracLess(x, y) ==
  \/ x[1] * y[2] < y[1] * x[2]
  \/ x[1] * y[2] = y[1] * x[2] /\ x[3] < y[3]
FracLeq(x, y) ==
  \/ x[1] * y[2] < y[1] * x[2]
  \/ x[1] * y[2] = y[1] * x[2] /\ x[3] <= y[3]
FracEq(x, y) == x[1] * y[2] = y[1] * x[2] /\ x[3] = y[3]

Sign(i) == IF i > 0 THEN 1 ELSE IF i < 0 THEN -1 ELSE 0

RECURSIVE Pow2Mod(_, _)
\* 2^k modulo m
Pow2Mod(k, m) == IF k = 0 THEN 1 % m ELSE (2 * Pow2Mod(k - 1, m)) % m

\* the integer nearest to a / m + t, for a tiny t of sign tiny, ties going
\* to the even one of the integers base + ..., as the rounding of a float
\* operation does; the result is given relative to base
RoundNearest(a, m, base_odd, tiny) ==
  LET f == IF a >= 0 THEN a \div m ELSE -((m - 1 - a) \div m)
      g == a - f * m
      odd == (base_odd + f) % 2 = 1
  IN IF 2 * g < m THEN f
     ELSE IF 2 * g > m THEN f + 1
     ELSE IF tiny > 0 THEN f + 1
     ELSE IF tiny < 0 THEN f
     ELSE IF odd THEN f + 1 ELSE f

\* (c / n) * 0.9 in floats against the double nearest to 9c / 10n, for
\* n <= 2c <= 2n: 1 when it is above, -1 when it is below, 0 when it is
\* that double.  c / n is the 53-bit M1 / 2^53 with n * M1 = c * 2^53 + d1,
\* 0.9 is (9 * 2^53 + 2) / (10 * 2^53), and their exact product,
\* (9c * 2^53 + 2c + 9 * d1 + 2 * d1 / 2^53) / (10n * 2^53), is rounded to
\* 53 bits (to 54 binary places when it is below 1/2).
float_error(c, n) ==
  LET r == (c * Pow2Mod(53, n)) % n
      q1_odd == ((c * Pow2Mod(53, 2 * n)) % (2 * n)) \div n
      d1 == IF 2 * r < n THEN -r
            ELSE IF 2 * r > n THEN n - r
            ELSE IF q1_odd = 0 THEN -r ELSE n - r
      s0 == 2 * c + 9 * d1
      places == IF 18 * c > 10 * n THEN 53
                ELSE IF 18 * c < 10 * n THEN 54
                ELSE IF s0 > 0 \/ (s0 = 0 /\ d1 >= 0) THEN 53 ELSE 54
      m == 10 * n
      rho == (9 * c * Pow2Mod(places, m)) % m
      q_odd == ((9 * c * Pow2Mod(places, 2 * m)) % (2 * m)) \div m
      s == IF places = 54 THEN 2 * s0 ELSE s0
  IN Sign(RoundNearest(rho + s, m, q_odd, Sign(d1))
          - RoundNearest(rho, m, q_odd, 0))

\* score * 0.9 with score = c / n
times_nine_tenths(c, n) == <<9 * c, 10 * n, float_error(c, n)>>

(***************************************************************************)
(* difflib.SequenceMatcher(None, a, b).ratio()                             *)
(* (no junk; the autojunk heuristic needs len(b) >= 200)                   *)
(***************************************************************************)
RECURSIVE MatchLen(_, _, _, _, _, _)
\* length of the common run of a[i..ahi] and b[j..bhi] starting at i and j
MatchLen(a, b, i, j, ahi, bhi) ==
  IF i <= ahi /\ j <= bhi /\ a[i] = b[j]
  THEN 1 + MatchLen(a, b, i + 1, j + 1, ahi, bhi)
  ELSE 0

\* find_longest_match: the longest block, of those the one starting earliest
\* in a, of those the one starting earliest in b; <<i, j, size>>
find_longest_match(a, b, alo, ahi, blo, bhi) ==
  LET blocks == {<<i, j, MatchLen(a, b, i, j, ahi, bhi)>> :
                   i \in alo..ahi, j \in blo..bhi}
  IN IF blocks = {} THEN <<alo, blo, 0>>
     ELSE CHOOSE m \in blocks :
            \A o \in blocks :
              \/ m[3] > o[3]
              \/ m[3] = o[3] /\ m[1] < o[1]
              \/ m[3] = o[3] /\ m[1] = o[1] /\ m[2] <= o[2]

RECURSIVE MatchingTotal(_, _, _, _, _, _)
\* sum of the sizes of get_matching_blocks() within a[alo..ahi], b[blo..bhi]
MatchingTotal(a, b, alo, ahi, blo, bhi) ==
  IF alo > ahi \/ blo > bhi THEN 0
  ELSE LET m == find_longest_match(a, b, alo, ahi, blo, bhi)
       IN IF m[3] = 0 THEN 0
          ELSE m[3]
               + MatchingTotal(a, b, alo, m[1] - 1, blo, m[2] - 1)
               + MatchingTotal(a, b, m[1] + m[3], ahi, m[2] + m[3], bhi)

\* ratio() = 2.0 * matches / (len(a) + len(b)), 1.0 when both are empty
ratio(a, b) ==
  IF Len(a) + Len(b) = 0 THEN Frac(1, 1)
  ELSE Frac(2 * MatchingTotal(a, b, 1, Len(a), 1, Len(b)), Len(a) + Len(b))

(***************************************************************************)
(* GrammarEngine.__init__ and build_word_index                             *)
(***************************************************************************)
\* self.keywords holding the keywords as they were loaded
engine_keywords_as_loaded(keywords) == keywords

\* self.keywords: the normalized keywords, in load order, duplicates kept
engine_keywords(keywords) ==
  [i \in DOMAIN keywords |-> normalize_text(keywords[i])]

\* what a lookup of a missing key gives: the KeyError it raises
KeyError == <<"KeyError">>

\* original_map keeping the first loaded keyword that normalizes to p
original_map_first_write(keywords, p) ==
  LET hits == {i \in DOMAIN keywords : normalize_text(keywords[i]) = p}
  IN IF hits = {} THEN KeyError
     ELSE keywords[CHOOSE i \in hits : \A j \in hits : i <= j]

\* self.original_map[p]: the last loaded keyword that normalizes to p
original_map(keywords, p) ==
  LET hits == {i \in DOMAIN keywords : normalize_text(keywords[i]) = p}
  IN IF hits = {} THEN KeyError
     ELSE keywords[CHOOSE i \in hits : \A j \in hits : j <= i]

\* the keys of self.original_map
original_map_keys(keywords) ==
  {normalize_text(keywords[i]) : i \in DOMAIN keywords}

\* the indices of s, in order
Indices(s) == [i \in DOMAIN s |-> i]

\* the sequence without its repeated elements, first occurrences kept
Distinct(s) ==
  LET firsts == SelectSeq(Indices(s),
                          LAMBDA i : \A j \in 1..(i - 1) : s[j] # s[i])
  IN [k \in DOMAIN firsts |-> s[firsts[k]]]

\* The index under construction is the dict as its items in insertion order,
\* each <<word, bucket>>.
has_key(index, word) == \E i \in DOMAIN index : index[i][1] = word

\* index.get(word, []): the bucket of the word, empty when it has none
bucket(index, word) ==
  IF has_key(index, word)
  THEN index[CHOOSE i \in DOMAIN index : index[i][1] = word][2]
  ELSE <<>>

\* the loop body appending the phrase without the membership test
index_add_unchecked(index, word, phrase) ==
  IF has_key(index, word)
  THEN [i \in DOMAIN index |->
          IF index[i][1] = word
          THEN <<word, Append(index[i][2], phrase)>>
          ELSE index[i]]
  ELSE Append(index, <<word, <<phrase>>>>)

\* if word not in index: index[word] = []
\* if phrase not in index[word]: index[word].append(phrase)
index_add(index, word, phrase) ==
  IF has_key(index, word)
  THEN [i \in DOMAIN index |->
          IF index[i][1] = word /\ ~Contains(index[i][2], phrase)
          THEN <<word, Append(index[i][2], phrase)>>
          ELSE index[i]]
  ELSE Append(index, <<word, <<phrase>>>>)

RECURSIVE index_words(_, _, _)
\* for word in words (index # index is never true: the comparison evaluates
\* the dict built so far before the next iteration starts)
index_words(index, words, phrase) ==
  IF words = <<>> \/ index # index THEN index
  ELSE index_words(index_add(index, Head(words), phrase), Tail(words), phrase)

RECURSIVE index_phrases(_, _)
\* for phrase in self.keywords: words = phrase.split()
index_phrases(index, phrases) ==
  IF phrases = <<>> \/ index # index THEN index
  ELSE index_phrases(index_words(index, split(Head(phrases)), Head(phrases)),
                     Tail(phrases))

\* build_word_index()
build_word_index(keywords) == index_phrases(<<>>, engine_keywords(keywords))

\* build_word_index()[word], the empty list standing for a missing key
word_index(keywords, word) ==
  Distinct(SelectSeq(engine_keywords(keywords),
                     LAMBDA phrase : Contains(split(phrase), word)))

(***************************************************************************)
(* GrammarEngine.check_phrase                                              *)
(* A match is <<normalized phrase, score>>.  `order` is the order in which *)
(* the candidate_phrases set is iterated: a sequence holding every         *)
(* distinct normalized keyword once.                                       *)
(***************************************************************************)
\* 1. exact prefix matches
prefix_matches(keywords, norm_phrase) ==
  LET hits == SelectSeq(engine_keywords(keywords),
                        LAMBDA k : startswith(k, norm_phrase) /\ k # norm_phrase)
  IN [i \in DOMAIN hits |-> <<hits[i], Frac(1, 1)>>]

\* candidate_phrases: the union of the word_index buckets of the input words
candidate_phrases(keywords, input_words) ==
  UNION {Range(word_index(keywords, input_words[i])) : i \in DOMAIN input_words}

\* 2. partial word matches: score = |common words| / len(input_words),
\* kept with score * 0.9 when score >= 0.5
partial_matches(keywords, norm_phrase, order) ==
  LET input_words == split(norm_phrase)
      cands == candidate_phrases(keywords, input_words)
      common(c) == Cardinality(Range(input_words) \cap Range(split(c)))
      kept == SelectSeq(order,
                LAMBDA c : c \in cands /\ 2 * common(c) >= Len(input_words))
  IN IF input_words = <<>> THEN <<>>
     ELSE [i \in DOMAIN kept |->
             <<kept[i], times_nine_tenths(common(kept[i]), Len(input_words))>>]

\* 3. similarity matches
similarity_matches(keywords, norm_phrase) ==
  LET ks == SelectSeq(engine_keywords(keywords), LAMBDA k : k # norm_phrase)
  IN [i \in DOMAIN ks |-> <<ks[i], ratio(norm_phrase, ks[i])>>]

all_matches(keywords, norm_phrase, partial_matching, order) ==
  prefix_matches(keywords, norm_phrase)
  \o (IF partial_matching THEN partial_matches(keywords, norm_phrase, order)
      ELSE <<>>)
  \o similarity_matches(keywords, norm_phrase)

\* unique_matches[phrase] after the loop: the first of the phrase's matches
\* that no other of its matches beats (a later score replaces the stored one
\* only when it is strictly greater)
best_match(ms, phrase) ==
  ms[CHOOSE i \in DOMAIN ms :
       /\ ms[i][1] = phrase
       /\ \A j \in DOMAIN ms :
            ms[j][1] = phrase =>
              (FracLeq(ms[j][2], ms[i][2])
               /\ (j < i => FracLess(ms[j][2], ms[i][2])))]

\* the dict keeping for each phrase the first score it was given
unique_matches_first_score(ms) ==
  LET firsts == SelectSeq(Indices(ms),
                          LAMBDA i : \A j \in 1..(i - 1) : ms[j][1] # ms[i][1])
  IN [k \in DOMAIN firsts |-> ms[firsts[k]]]

\* the dict phrase -> best score, as its items in insertion order
unique_matches(ms) ==
  LET firsts == SelectSeq(Indices(ms),
                          LAMBDA i : \A j \in 1..(i - 1) : ms[j][1] # ms[i][1])
  IN [k \in DOMAIN firsts |-> best_match(ms, ms[firsts[k]][1])]

\* the sort key (score, len(phrase)), lowest score first
KeyLess_ascending(x, y) ==
  \/ FracLess(x[2], y[2])
  \/ FracEq(x[2], y[2]) /\ Len(x[1]) < Len(y[1])

\* sort key (-score, len(phrase)): x sorts strictly before y
KeyLess(x, y) ==
  \/ FracLess(y[2], x[2])
  \/ FracEq(x[2], y[2]) /\ Len(x[1]) < Len(y[1])

\* the place of ms[i] in the stable sort: after every element that sorts
\* strictly before it and every earlier element that does not sort after it
sorted_place(ms, i) ==
  1 + Cardinality({j \in DOMAIN ms :
                     \/ KeyLess(ms[j], ms[i])
                     \/ j < i /\ ~KeyLess(ms[i], ms[j])})

\* sorted(..., key=lambda x: (-x[1], len(x[0]))): stable
sorted(ms) ==
  [k \in DOMAIN ms |-> ms[CHOOSE i \in DOMAIN ms : sorted_place(ms, i) = k]]

\* sorted_matches without the [:MAX_SUGGESTIONS] slice
ranked_matches_unsliced(keywords, phrase, min_similarity, partial_matching, order) ==
  LET norm_phrase == normalize_text(phrase)
      um == unique_matches(all_matches(keywords, norm_phrase,
                                       partial_matching, order))
      filtered == SelectSeq(um, LAMBDA m : FracLeq(min_similarity, m[2]))
  IN sorted(filtered)

\* sorted_matches[:MAX_SUGGESTIONS]
ranked_matches(keywords, phrase, min_similarity, partial_matching, order) ==
  LET norm_phrase == normalize_text(phrase)
      um == unique_matches(all_matches(keywords, norm_phrase,
                                       partial_matching, order))
      filtered == SelectSeq(um, LAMBDA m : FracLeq(min_similarity, m[2]))
  IN Take(sorted(filtered), MAX_SUGGESTIONS)

\* [self.original_map[m[0]] for m in sorted_matches[:MAX_SUGGESTIONS]]
originals(keywords, ms) == [i \in DOMAIN ms |-> original_map(keywords, ms[i][1])]

\* the matched part of the result
matched_results(keywords, phrase, min_similarity, partial_matching, order) ==
  originals(keywords, ranked_matches(keywords, phrase, min_similarity,
                                     partial_matching, order))

\* padding that stops one entry short of MIN_SUGGESTIONS
padding_one_short(keywords, results) ==
  IF Len(results) < MIN_SUGGESTIONS
  THEN LET ks == SelectSeq(engine_keywords(keywords),
                   LAMBDA k : ~Contains(results, original_map(keywords, k)))
           remaining == [i \in DOMAIN ks |-> original_map(keywords, ks[i])]
       IN Take(remaining, MIN_SUGGESTIONS - Len(results) - 1)
  ELSE <<>>

\* the padding appended when fewer than MIN_SUGGESTIONS matched
padding(keywords, results) ==
  IF Len(results) < MIN_SUGGESTIONS
  THEN LET ks == SelectSeq(engine_keywords(keywords),
                   LAMBDA k : ~Contains(results, original_map(keywords, k)))
           remaining == [i \in DOMAIN ks |-> original_map(keywords, ks[i])]
       IN Take(remaining, MIN_SUGGESTIONS - Len(results))
  ELSE <<>>

\* the padding put in front of the matched entries
padded_in_front(keywords, results) == padding(keywords, results) \o results

\* results.extend(remaining[:needed])
padded(keywords, results) == results \o padding(keywords, results)

check_phrase(keywords, phrase, min_similarity, partial_matching, order) ==
  padded(keywords, matched_results(keywords, phrase, min_similarity,
                                   partial_matching, order))

(***************************************************************************)
(* Bounds of the model                                                     *)
(***************************************************************************)
\* largest capacity of phrase_buffer (the configured max_phrase_length)
max_phrase_length == 3
\* the model types words of at most MaxTyped characters, and a punctuation
\* mark only after a word of MaxTyped characters
MaxTyped == 1
\* most suggestion popups on screen at once
MaxPopups == 2
\* longest keyword list handed to the engine on its own, drawn freely from
\* the pool
MaxKeywords == 2
\* length of the one long keyword list, above MAX_SUGGESTIONS
LongLen == 32
\* longest text handed to normalize_text on its own
MaxText == 4

(***************************************************************************)
(* Configuration (ConfigManager._load_config defaults, except the web      *)
(* search keyword, set to a word the model can type)                       *)
(***************************************************************************)
min_phrase_length == MIN_PHRASE_LENGTH
min_similarity == Frac(1, 2)
enable_partial_matching == TRUE
enable_word_learning == TRUE
enable_web_search == TRUE
\* the web search keyword of the configurations that do not vary it
WebKeyword == <<"b">>
clear_buffer_after_search == TRUE

\* the key names of the events the model delivers
KeyNames == {"a", "b", "3", ".", "space", "\n", "backspace", "shift"}

\* what load_keywords can return: the lines of the keyword file, or the
\* empty list when the file cannot be read
KeywordFiles == { << <<"a", " ", "a">> >>, <<>> }

PopupIds == 1..MaxPopups

\* every iteration order of a set of the distinct elements of s
Orders(s) ==
  LET d == Distinct(s)
      perms == {q \in [DOMAIN d -> DOMAIN d] :
                  \A i, j \in DOMAIN d : i # j => q[i] # q[j]}
  IN {[i \in DOMAIN d |-> d[q[i]]] : q \in perms}

VARIABLES
  keywords,            \* GrammarPalApp.keywords, the list self.ge was built from
  learned_words,       \* self.ge.learned_words
  typed_chars,         \* self.typed_chars
  phrase_buffer,       \* self.phrase_buffer, a deque(maxlen=max_phrase_length)
  suggestion_active,   \* self.suggestion_active
  force_suggest_mode,  \* self.force_suggest_mode
  web_search_mode,     \* self.web_search_mode
  popups,              \* the SuggestionPopup windows on screen, by id
  starting,            \* the popup threads started at line 1162 that have
                       \* not built their SuggestionPopup yet
  owner,               \* history: for each phrase_buffer entry, the popups
                       \* whose phrase it was part of when they were emitted
                       \* (a popup not built yet counts after those on screen)
  run,                 \* history: the words pushed so far while only key
                       \* events have happened
  last,                \* history: the handler that ran last and what it did
  call,                \* the last check_phrase call made on the engine alone
  engines,             \* the GrammarEngine objects built so far
  ge,                  \* self.ge: the engine the application refers to
  key_pc,              \* the handler in progress on the keyboard thread
  tray_pc,             \* the handler in progress on the tray thread
  tk_pc,               \* the callback in progress in the Tk main loop
  reload_pc,           \* the reload_keywords call in progress
  match_pc,            \* the check_phrase call in progress
  timers,              \* the destroyed popups whose scheduled timeout has
                       \* not fired yet (their number)
  offered,             \* history: the normalized phrases of the last
                       \* recent_phrases_size suggestions emitted
  web_search_keyword,  \* self.config.get("web_search_keyword", "search")
  owned,               \* history: whether owner is being recorded
  capacity,            \* self.phrase_buffer.maxlen: the configured
                       \* max_phrase_length
  taught               \* history: the phrases given to learn_word, since
                       \* the last reload of the keywords (live) and before
                       \* it (discarded)

vars == <<keywords, learned_words, typed_chars, phrase_buffer,
          suggestion_active, force_suggest_mode, web_search_mode, popups,
          starting, owner, run, last, call, engines, ge, key_pc, tray_pc, tk_pc,
          reload_pc, match_pc,
          timers, offered, web_search_keyword, capacity, owned, taught>>

appvars == <<learned_words, typed_chars, phrase_buffer, suggestion_active,
             force_suggest_mode, web_search_mode, popups, starting, owner,
             run, last>>

threadvars ==
  <<engines, ge, key_pc, tray_pc, tk_pc, reload_pc, match_pc, timers, offered,
    web_search_keyword, capacity, owned, taught>>

(***************************************************************************)
(* The application state the statements of the handlers work on            *)
(***************************************************************************)
State ==
  [typed_chars |-> typed_chars, phrase_buffer |-> phrase_buffer,
   suggestion_active |-> suggestion_active,
   force_suggest_mode |-> force_suggest_mode,
   web_search_mode |-> web_search_mode, popups |-> popups,
   starting |-> starting,
   learned_words |-> learned_words, maxlen |-> capacity,
   owner |-> IF owned THEN owner ELSE [i \in DOMAIN phrase_buffer |-> {}]]

\* collections.deque(maxlen=m).append(x)
deque_append(d, x, m) ==
  IF m = 0 THEN d
  ELSE IF Len(d) = m THEN Append(Tail(d), x)
  ELSE Append(d, x)

\* list.remove / deque.remove: drop the first element equal to x; the index
\* of that element, 0 when there is none (ValueError)
first_index(d, x) ==
  IF Contains(d, x) THEN CHOOSE i \in DOMAIN d : d[i] = x /\ \A j \in 1..(i - 1) : d[j] # x
  ELSE 0

remove_at(d, i) ==
  IF i = 0 THEN d ELSE SubSeq(d, 1, i - 1) \o SubSeq(d, i + 1, Len(d))

\* threading.Thread(target=lambda: SuggestionPopup(phrase, suggestions, ...))
\* .start(): a thread is started that will build a popup for the last n
\* words of the window; the handler does not wait for it
show_popup(st, phrase, suggestions, n) ==
  LET id == Len(st.popups) + Len(st.starting) + 1
      len == Len(st.phrase_buffer)
  IN [st EXCEPT
        !.starting = Append(st.starting,
                            [phrase |-> phrase, suggestions |-> suggestions]),
        !.owner = [i \in DOMAIN st.owner |->
                     IF i > len - n THEN st.owner[i] \cup {id} ELSE st.owner[i]]]

\* SuggestionPopup.__init__ on the thread started i-th of those still to
\* run: the window, its buttons and its timeout (line 359); the popups on
\* screen are numbered in the order in which they were built
SuggestionPopup(st, i) ==
  LET shown == Len(st.popups)
  IN [st EXCEPT
        !.popups = Append(st.popups, st.starting[i]),
        !.starting = remove_at(st.starting, i),
        !.owner = [k \in DOMAIN st.owner |->
                     {IF j = shown + i THEN shown + 1
                      ELSE IF j > shown /\ j < shown + i THEN j + 1
                      ELSE j : j \in st.owner[k]}]]

\* SuggestionPopup.destroy: the popup leaves the screen
destroy(st, id) ==
  [st EXCEPT
     !.popups = remove_at(st.popups, id),
     !.owner = [i \in DOMAIN st.owner |->
                  {IF j > id THEN j - 1 ELSE j : j \in st.owner[i] \ {id}}]]

(***************************************************************************)
(* Threads.  on_key_press and the hotkey's force_suggestion run on the     *)
(* thread of the keyboard library, the tray menu's force_suggestion and    *)
(* quick_web_search on the thread of the tray icon, and the callbacks of   *)
(* the popups and of the buttons in the Tk main loop.  No lock is taken:   *)
(* between two statements of a handler the other threads can run.  A       *)
(* handler in progress is a record: the statement it stands at (its line   *)
(* in src/main.py), its local variables, what it has done so far, the      *)
(* typed_chars it was called with (typed), the window it has built by      *)
(* pushing a word (window), the other threads that have run since it was   *)
(* called (among), and of the phrase completion in progress whether it     *)
(* began in Pending with no force-resubmit active (pend) and whether its   *)
(* phrase was a learned one when it began (known).                         *)
(***************************************************************************)
Idle ==
  [at |-> "idle", thread |-> "", op |-> "", key |-> "", word |-> <<>>, n |-> 0,
   phrase |-> <<>>, suggestions |-> <<>>, back |-> "",
   id |-> 0, correction |-> <<>>, fail |-> "none", words |-> <<>>,
   emitted |-> 0, suppressed |-> 0, searched |-> 0, pushed |-> <<>>,
   applied |-> <<>>, reported |-> FALSE, raised |-> "",
   among |-> {}, typed |-> <<>>, window |-> <<>>,
   pend |-> FALSE, known |-> FALSE]

\* a handler called on a thread in state st
called(thread, op, key, st) ==
  [Idle EXCEPT !.thread = thread, !.op = op, !.key = key,
               !.typed = st.typed_chars]

\* the outcome of a statement: the handler and the application after it
Then(t, st) == [t |-> t, st |-> st]

goto(t, at) == [t EXCEPT !.at = at]

\* the handler returns
done(t) == [t EXCEPT !.at = "done"]

\* an exception leaves the handler
raise(t, error) == [t EXCEPT !.at = "done", !.raised = error]

HasDigit(word) == \E i \in DOMAIN word : isdigit(word[i])

(***************************************************************************)
(* GrammarPalApp.check_combinations, statement by statement                *)
(***************************************************************************)
\* for n in range(4, 0, -1): the next iteration, or the statement after the
\* call of check_combinations
next_combination(t) ==
  IF t.n > 1 THEN [t EXCEPT !.n = t.n - 1, !.at = "1123"]
  ELSE goto(t, "1116")

\* on_phrase_completed returns: to the loop of check_combinations, or to
\* the end of force_suggestion and quick_web_search
return(t) ==
  IF t.back = "loop"
  THEN next_combination([t EXCEPT !.pend = FALSE, !.known = FALSE])
  ELSE done(t)

\* if len(self.phrase_buffer) >= n
check_combinations_1123(t, st) ==
  IF Len(st.phrase_buffer) >= t.n THEN Then(goto(t, "1124"), st)
  ELSE Then(next_combination(t), st)

\* s[-n:] for n >= 1: the last n elements, all of s when it has fewer
slice_last(s, n) == IF n >= Len(s) THEN s ELSE LastN(s, n)

\* phrase = ' '.join(list(self.phrase_buffer)[-n:]);
\* if len(phrase) >= min_phrase_length: self.on_phrase_completed(phrase)
check_combinations_1124(t, st) ==
  LET phrase == JoinSpace(slice_last(st.phrase_buffer, t.n))
  IN IF Len(phrase) >= min_phrase_length
     THEN Then([t EXCEPT !.phrase = phrase, !.back = "loop", !.at = "1129"], st)
     ELSE Then(next_combination(t), st)

(***************************************************************************)
(* GrammarPalApp.on_phrase_completed and handle_web_search, statement by   *)
(* statement; t.n: the phrase was read as the last n words of the window   *)
(***************************************************************************)
\* self.suggestion_active, the first operand of the guard
suggestion_pending(st) == st.suggestion_active

\* the guard let the completion through;
\* if len(phrase) < min_phrase_length: return
completion_begins(t, st, pend) ==
  IF Len(t.phrase) < min_phrase_length THEN Then(return(t), st)
  ELSE Then([t EXCEPT !.at = "1136",
                      !.pend = pend,
                      !.known = /\ enable_word_learning
                                /\ normalize_text(t.phrase) \in st.learned_words],
            st)

\* if self.suggestion_active and ...: the three operands of the guard are
\* read one after the other, and another thread can write between the reads
on_phrase_completed_1129(t, st) ==
  IF suggestion_pending(st) THEN Then(goto(t, "1129f"), st)
  ELSE completion_begins(t, st, FALSE)

\* ... and not self.force_suggest_mode and ...
on_phrase_completed_1129f(t, st) ==
  IF st.force_suggest_mode THEN completion_begins(t, st, FALSE)
  ELSE Then(goto(t, "1129w"), st)

\* ... and not self.web_search_mode: return
on_phrase_completed_1129w(t, st) ==
  IF st.web_search_mode THEN completion_begins(t, st, TRUE)
  ELSE Then(return([t EXCEPT !.suppressed = t.suppressed + 1]), st)

\* if (not self.web_search_mode and ...: the first operand of the condition
on_phrase_completed_1136(t, st) ==
  IF st.web_search_mode THEN Then(goto(t, "1141"), st)
  ELSE Then(goto(t, "1138"), st)

\* ... self.config.get("enable_word_learning", True) and
\* self.ge.normalize_text(phrase) in self.ge.learned_words): return
on_phrase_completed_1138(t, st) ==
  IF enable_word_learning /\ normalize_text(t.phrase) \in st.learned_words
  THEN Then(return(t), st)
  ELSE Then(goto(t, "1141"), st)

\* if self.web_search_mode: self.handle_web_search(phrase), which opens the
\* browser and reads clear_buffer_after_search
on_phrase_completed_1141(t, st) ==
  IF st.web_search_mode
  THEN Then([t EXCEPT !.searched = t.searched + 1,
                      !.at = IF clear_buffer_after_search THEN "1181"
                             ELSE "1184"], st)
  ELSE Then(goto(t, "1145"), st)

\* self.phrase_buffer.clear()
handle_web_search_1181(t, st) ==
  Then(goto(t, "1182"), [st EXCEPT !.phrase_buffer = <<>>, !.owner = <<>>])

\* self.typed_chars.clear()
handle_web_search_1182(t, st) ==
  Then(goto(t, "1184"), [st EXCEPT !.typed_chars = <<>>])

\* self.web_search_mode = False
handle_web_search_1184(t, st) ==
  Then(goto(t, "1185"), [st EXCEPT !.web_search_mode = FALSE])

\* self.suggestion_active = False, and the return of on_phrase_completed
handle_web_search_1185(t, st) ==
  Then(return(t), [st EXCEPT !.suggestion_active = FALSE])

\* a popup started without the test of the suggestion list
suggest_unconditionally(suggestions) == TRUE

\* if suggestions
suggest(suggestions) == suggestions # <<>>

\* suggestions = self.ge.check_phrase(phrase, min_similarity,
\* partial_matching); if suggestions
on_phrase_completed_1145(t, st, kws, order) ==
  LET suggestions == check_phrase(kws, t.phrase, min_similarity,
                                  enable_partial_matching, order)
  IN IF suggest(suggestions)
     THEN Then([t EXCEPT !.suggestions = suggestions, !.at = "1150"], st)
     ELSE Then(return(t), st)

\* self.suggestion_active = True
on_phrase_completed_1150(t, st) ==
  Then(goto(t, "1162"), [st EXCEPT !.suggestion_active = TRUE])

\* threading.Thread(target=lambda: SuggestionPopup(...)).start()
on_phrase_completed_1162(t, st) ==
  Then([t EXCEPT !.emitted = t.emitted + 1, !.at = "1173"],
       show_popup(st, t.phrase, t.suggestions, t.n))

\* self.force_suggest_mode = False, and the return
on_phrase_completed_1173(t, st) ==
  Then(return(t), [st EXCEPT !.force_suggest_mode = FALSE])

(***************************************************************************)
(* GrammarPalApp.on_key_press, statement by statement                      *)
(***************************************************************************)
\* the key names of more than one character
LongKeyNames == {"space", "enter", "tab", "backspace", "shift"}

\* len(name) == 1 and name.isprintable()
is_char_key(name) == name \notin LongKeyNames /\ isprintable(name)

\* key_char with a digit joining the word in progress like any character
key_char_keeps_digit(st, name) ==
  [st EXCEPT !.typed_chars = Append(st.typed_chars, name)]

\* if name.isdigit(): self.typed_chars.clear(); return
\* self.typed_chars.append(name)
key_char(st, name) ==
  IF isdigit(name) THEN [st EXCEPT !.typed_chars = <<>>]
  ELSE [st EXCEPT !.typed_chars = Append(st.typed_chars, name)]

\* the tests on the key name, up to the first statement of the branch taken
\* (a character key has one statement only)
on_key_press(t, st, name) ==
  IF is_char_key(name) THEN Then(done(t), key_char(st, name))
  ELSE IF name \in WORD_BOUNDARIES
       THEN IF st.typed_chars # <<>> THEN Then(goto(t, "1104"), st)
            ELSE Then(done(t), st)
  ELSE IF name = "backspace" /\ st.typed_chars # <<>>
       THEN Then(goto(t, "1119"), st)
  ELSE Then(done(t), st)

\* word = ''.join(self.typed_chars).strip()
on_key_press_1104(t, st) ==
  Then([t EXCEPT !.word = strip(st.typed_chars), !.at = "1105"], st)

\* self.typed_chars.clear(); if word and not any(c.isdigit() for c in word)
on_key_press_1105(t, st) ==
  Then(IF t.word # <<>> /\ ~HasDigit(t.word) THEN goto(t, "1108") ELSE done(t),
       [st EXCEPT !.typed_chars = <<>>])

\* if enable_web_search and word.lower() == web_search_keyword
on_key_press_1108(t, st, keyword) ==
  IF enable_web_search /\ lower_text(t.word) = keyword
  THEN Then(goto(t, "1110"), st)
  ELSE Then(goto(t, "1113"), st)

\* self.web_search_mode = True; return
on_key_press_1110(t, st) ==
  Then(done(t), [st EXCEPT !.web_search_mode = TRUE])

\* the word put at the old end of the window (appendleft)
append_word_left(st, word) ==
  [st EXCEPT
     !.phrase_buffer = Take(<<word>> \o st.phrase_buffer, st.maxlen),
     !.owner = Take(<<{}>> \o st.owner, st.maxlen)]

\* self.phrase_buffer.append(word)
append_word(st, word) ==
  [st EXCEPT
     !.phrase_buffer = deque_append(st.phrase_buffer, word, st.maxlen),
     !.owner = deque_append(st.owner, {}, st.maxlen)]

on_key_press_1113(t, st) ==
  Then([t EXCEPT !.pushed = Append(t.pushed, t.word),
                 !.window = append_word(st, t.word).phrase_buffer,
                 !.at = "1114"],
       append_word(st, t.word))

\* self.suggestion_active = False; self.check_combinations()
on_key_press_1114(t, st) ==
  Then([t EXCEPT !.n = 4, !.at = "1123"],
       [st EXCEPT !.suggestion_active = FALSE])

\* if len(self.phrase_buffer) == self.phrase_buffer.maxlen
on_key_press_1116(t, st) ==
  IF Len(st.phrase_buffer) = st.maxlen THEN Then(goto(t, "1117"), st)
  ELSE Then(done(t), st)

\* self.phrase_buffer.popleft(): IndexError on an empty deque
on_key_press_1117(t, st) ==
  IF st.phrase_buffer = <<>> THEN Then(raise(t, "IndexError"), st)
  ELSE Then(done(t), [st EXCEPT !.phrase_buffer = Tail(st.phrase_buffer),
                                !.owner = Tail(st.owner)])

\* self.typed_chars.pop(): IndexError on an empty list
on_key_press_1119(t, st) ==
  IF st.typed_chars = <<>> THEN Then(raise(t, "IndexError"), st)
  ELSE Then(done(t),
            [st EXCEPT !.typed_chars =
                         SubSeq(st.typed_chars, 1, Len(st.typed_chars) - 1)])

(***************************************************************************)
(* GrammarPalApp.force_suggestion and quick_web_search, statement by       *)
(* statement                                                               *)
(***************************************************************************)
\* if self.phrase_buffer
force_suggestion(t, st) ==
  IF st.phrase_buffer # <<>> THEN Then(goto(t, "982"), st) ELSE Then(done(t), st)

\* phrase = ' '.join(self.phrase_buffer)
force_suggestion_982(t, st) ==
  Then([t EXCEPT !.phrase = JoinSpace(st.phrase_buffer),
                 !.n = Len(st.phrase_buffer), !.at = "983"], st)

\* self.force_suggest_mode = True; self.on_phrase_completed(phrase)
force_suggestion_983(t, st) ==
  Then([t EXCEPT !.back = "end", !.at = "1129"],
       [st EXCEPT !.force_suggest_mode = TRUE])

\* if self.phrase_buffer
quick_web_search(t, st) ==
  IF st.phrase_buffer # <<>> THEN Then(goto(t, "989"), st) ELSE Then(done(t), st)

\* phrase = ' '.join(self.phrase_buffer)
quick_web_search_989(t, st) ==
  Then([t EXCEPT !.phrase = JoinSpace(st.phrase_buffer),
                 !.n = Len(st.phrase_buffer), !.at = "990"], st)

\* self.web_search_mode = True; self.on_phrase_completed(phrase)
quick_web_search_990(t, st) ==
  Then([t EXCEPT !.back = "end", !.at = "1129"],
       [st EXCEPT !.web_search_mode = TRUE])

(***************************************************************************)
(* SuggestionPopup.on_ignore and GrammarPalApp.clear_phrase_buffer,        *)
(* statement by statement                                                  *)
(***************************************************************************)
\* self.ignore_callback(self.phrase): words_to_remove = phrase.split()
on_ignore(t, st) ==
  LET words == split(st.popups[t.id].phrase)
  IN Then([t EXCEPT !.phrase = st.popups[t.id].phrase, !.words = words,
                    !.at = IF words = <<>> THEN "1196" ELSE "1193"], st)

\* SuggestionPopup.search_web: webbrowser.open_new_tab(...);
\* if self.config.get("clear_buffer_after_search", True): self.on_ignore()
search_web(t, st) ==
  IF clear_buffer_after_search
  THEN on_ignore([t EXCEPT !.searched = t.searched + 1], st)
  ELSE Then(done([t EXCEPT !.searched = t.searched + 1,
                           !.phrase = st.popups[t.id].phrase]), st)

\* try: self.phrase_buffer.remove(word) except ValueError: pass
clear_phrase_buffer_1193(t, st) ==
  LET i == first_index(st.phrase_buffer, Head(t.words))
  IN Then([t EXCEPT !.words = Tail(t.words),
                    !.at = IF Len(t.words) > 1 THEN "1193" ELSE "1196"],
          [st EXCEPT !.phrase_buffer = remove_at(st.phrase_buffer, i),
                     !.owner = remove_at(st.owner, i)])

\* self.suggestion_active = False
clear_phrase_buffer_1196(t, st) ==
  Then(goto(t, "404"), [st EXCEPT !.suggestion_active = FALSE])

\* self.destroy()
on_ignore_404(t, st) == Then(done(t), destroy(st, t.id))

(***************************************************************************)
(* SuggestionPopup.select and GrammarPalApp.apply_correction, statement by *)
(* statement; fail: the step that raises                                   *)
(***************************************************************************)
\* the steps of apply_correction that can raise
FailSteps == {"none", "activate", "copy", "keys", "history"}

\* pyperclip.copy, pyautogui.press, pyautogui.hotkey: the (original,
\* correction) pairs whose replacement reached the focused window
applied_pairs(original, correction, fail) ==
  IF fail \in {"copy", "keys"} THEN <<>> ELSE << <<original, correction>> >>

\* logging.warning("Couldn't activate window") in the inner handler;
\* logging.error and show_notification("Correction failed") in the outer one
failure_reported(fail) == fail # "none"

\* self.callback(self.phrase, correction): the body of the try block up to
\* the history update, which works on the desktop only
select(t, st, correction, fail) ==
  Then([t EXCEPT !.phrase = st.popups[t.id].phrase,
                 !.correction = correction, !.fail = fail,
                 !.applied = applied_pairs(st.popups[t.id].phrase,
                                           correction, fail),
                 !.reported = failure_reported(fail),
                 !.at = IF fail \in {"copy", "keys", "history"} THEN "1245"
                        ELSE "1238"], st)

\* self.typed_chars.clear()
apply_correction_1238(t, st) ==
  Then(goto(t, "1239"), [st EXCEPT !.typed_chars = <<>>])

\* the window left alone
clear_window_skipped(st) == st

\* self.phrase_buffer.clear()
clear_window(st) == [st EXCEPT !.phrase_buffer = <<>>, !.owner = <<>>]

apply_correction_1239(t, st) == Then(goto(t, "1245"), clear_window(st))

\* finally: self.suggestion_active = False
apply_correction_1245(t, st) ==
  Then(goto(t, "399"), [st EXCEPT !.suggestion_active = FALSE])

\* self.destroy()
select_399(t, st) == Then(done(t), destroy(st, t.id))

(***************************************************************************)
(* The timeout of a popup (self.after(timeout * 1000, self.destroy)) and   *)
(* its Learn button                                                        *)
(***************************************************************************)
popup_timeout(t, st) == Then(done(t), destroy(st, t.id))

\* the scheduled self.destroy that also sets the application idle
popup_late_timeout_resets(t, st) ==
  Then(done(t), [st EXCEPT !.suggestion_active = FALSE])

\* the scheduled self.destroy of a popup that select or on_ignore has
\* destroyed already: there is no window left and no callback is called
popup_late_timeout(t, st) == Then(done(t), st)

\* SuggestionPopup.learn_word: the popup is a CTkToplevel built without a
\* master, so self.master is the root window; the root window has no
\* attribute ge (ge belongs to GrammarPalApp), the test hasattr(self.master,
\* 'ge') fails and only self.destroy() runs
popup_learn_word(t, st) == Then(done(t), destroy(st, t.id))

(***************************************************************************)
(* GrammarEngine.learn_word and GrammarPalApp.update_web_keyword           *)
(***************************************************************************)
\* learn_word that records the word as it was given
learn_word_as_given(t, st, word) ==
  Then(done(t), [st EXCEPT !.learned_words = st.learned_words \cup {word}])

\* norm_word = self.normalize_text(word); self.learned_words.add(norm_word)
learn_word(t, st, word) ==
  Then(done(t),
       [st EXCEPT !.learned_words =
                    st.learned_words \cup {normalize_text(word)}])

\* new_keyword = self.web_keyword_var.get().strip().lower();
\* if new_keyword: self.config.set("web_search_keyword", new_keyword)
update_web_keyword(keyword, entry) ==
  IF lower_text(strip(entry)) # <<>> THEN lower_text(strip(entry)) ELSE keyword

(***************************************************************************)
(* The statement a handler in progress stands at                           *)
(***************************************************************************)
statement(t, st, kws, keyword, order) ==
  CASE t.at = "1104" -> on_key_press_1104(t, st)
    [] t.at = "1105" -> on_key_press_1105(t, st)
    [] t.at = "1108" -> on_key_press_1108(t, st, keyword)
    [] t.at = "1110" -> on_key_press_1110(t, st)
    [] t.at = "1113" -> on_key_press_1113(t, st)
    [] t.at = "1114" -> on_key_press_1114(t, st)
    [] t.at = "1116" -> on_key_press_1116(t, st)
    [] t.at = "1117" -> on_key_press_1117(t, st)
    [] t.at = "1119" -> on_key_press_1119(t, st)
    [] t.at = "1123" -> check_combinations_1123(t, st)
    [] t.at = "1124" -> check_combinations_1124(t, st)
    [] t.at = "1129" -> on_phrase_completed_1129(t, st)
    [] t.at = "1129f" -> on_phrase_completed_1129f(t, st)
    [] t.at = "1129w" -> on_phrase_completed_1129w(t, st)
    [] t.at = "1136" -> on_phrase_completed_1136(t, st)
    [] t.at = "1138" -> on_phrase_completed_1138(t, st)
    [] t.at = "1141" -> on_phrase_completed_1141(t, st)
    [] t.at = "1145" -> on_phrase_completed_1145(t, st, kws, order)
    [] t.at = "1150" -> on_phrase_completed_1150(t, st)
    [] t.at = "1162" -> on_phrase_completed_1162(t, st)
    [] t.at = "1173" -> on_phrase_completed_1173(t, st)
    [] t.at = "1181" -> handle_web_search_1181(t, st)
    [] t.at = "1182" -> handle_web_search_1182(t, st)
    [] t.at = "1184" -> handle_web_search_1184(t, st)
    [] t.at = "1185" -> handle_web_search_1185(t, st)
    [] t.at = "982" -> force_suggestion_982(t, st)
    [] t.at = "983" -> force_suggestion_983(t, st)
    [] t.at = "989" -> quick_web_search_989(t, st)
    [] t.at = "990" -> quick_web_search_990(t, st)
    [] t.at = "1193" -> clear_phrase_buffer_1193(t, st)
    [] t.at = "1196" -> clear_phrase_buffer_1196(t, st)
    [] t.at = "404" -> on_ignore_404(t, st)
    [] t.at = "1238" -> apply_correction_1238(t, st)
    [] t.at = "1239" -> apply_correction_1239(t, st)
    [] t.at = "1245" -> apply_correction_1245(t, st)
    [] t.at = "399" -> select_399(t, st)

(***************************************************************************)
(* The application: GrammarPalApp.__init__ and the actions of its threads  *)
(***************************************************************************)
NoCall ==
  [made |-> FALSE, phrase |-> <<>>, min_similarity |-> Frac(0, 1),
   partial_matching |-> FALSE, order |-> <<>>, results |-> <<>>, matched |-> 0]

\* no handler has run yet
NoOp == [Idle EXCEPT !.op = "init"]

\* a handler in progress has run a statement and has not returned
Stepping == [Idle EXCEPT !.op = "step"]

\* a part of an engine object: not assigned yet, or built from a keyword list
Unbuilt == [built |-> FALSE, from |-> <<>>]
BuiltFrom(kws) == [built |-> TRUE, from |-> kws]

\* GrammarEngine.__init__(keywords), run to its end
GrammarEngine(kws) ==
  [keywords |-> BuiltFrom(kws), original_map |-> BuiltFrom(kws),
   word_index |-> BuiltFrom(kws)]

\* no reload or check_phrase call is in progress
ReloadIdle == [at |-> "idle", target |-> 0]
MatchIdle ==
  [at |-> "idle", eng |-> 0, phrase |-> <<>>, partial |-> FALSE,
   read |-> <<>>, todo |-> <<>>, results |-> <<>>, remaining |-> <<>>]

\* the fields of the application but the web search keyword and the
\* capacity of phrase_buffer
Constructed ==
  /\ engines = <<GrammarEngine(keywords)>>
  /\ ge = 1
  /\ key_pc = Idle
  /\ tray_pc = Idle
  /\ tk_pc = Idle
  /\ reload_pc = ReloadIdle
  /\ match_pc = MatchIdle
  /\ timers = 0
  /\ offered = <<>>
  /\ taught = [live |-> {}, discarded |-> {}]
  /\ learned_words = {}
  /\ typed_chars = <<>>
  /\ phrase_buffer = <<>>
  /\ suggestion_active = FALSE
  /\ force_suggest_mode = FALSE
  /\ web_search_mode = FALSE
  /\ popups = <<>>
  /\ starting = <<>>
  /\ owner = <<>>
  /\ run = [clean |-> TRUE, words |-> <<>>]
  /\ last = NoOp

\* self.phrase_buffer = deque(maxlen=max_phrase_length)
AppFields ==
  /\ Constructed
  /\ capacity = max_phrase_length
  /\ owned = FALSE

AppInit ==
  /\ AppFields
  /\ web_search_keyword = WebKeyword

\* the application with a window of max_phrase_length - 1 words
SmallInit ==
  /\ Constructed
  /\ capacity = max_phrase_length - 1
  /\ owned = FALSE
  /\ web_search_keyword = WebKeyword

Init ==
  /\ keywords \in KeywordFiles
  /\ call = NoCall
  /\ AppInit

\* the outcome of a statement becomes the application's state
Becomes(st) ==
  /\ typed_chars' = st.typed_chars
  /\ phrase_buffer' = st.phrase_buffer
  /\ suggestion_active' = st.suggestion_active
  /\ force_suggest_mode' = st.force_suggest_mode
  /\ web_search_mode' = st.web_search_mode
  /\ popups' = st.popups
  /\ starting' = st.starting
  /\ learned_words' = st.learned_words
  /\ owner' = IF owned THEN st.owner ELSE <<>>

\* the thread whose handler has returned is free again
after(t) == IF t.at = "done" THEN Idle ELSE t

\* history: the handler that has just returned and what it did
report(t) == IF t.at = "done" THEN t ELSE [Stepping EXCEPT !.thread = t.thread]

\* thread th ran a statement while the key handler t was in progress
disturbed(t, th) ==
  IF t.op = "key" THEN [t EXCEPT !.among = t.among \cup {th}] ELSE t

\* the popup thread is started only while there is room on the screen
RoomFor(t) == t.at = "1162" => Len(popups) + Len(starting) < MaxPopups

\* self.ge.keywords' source: the keyword list the engine self.ge refers to
\* was built from
ge_keywords == engines[ge].keywords.from

\* the Tk main loop is free: no callback and no reload_keywords in progress
TkIdle == tk_pc.at = "idle" /\ reload_pc.at = "idle"

\* the words pushed by key events alone, each handled with no other thread
\* running and outside the web-search mode, one after another
run_after(r) ==
  IF r.t.op # "key" THEN [clean |-> FALSE, words |-> <<>>]
  ELSE IF r.t.at # "done" THEN run
  ELSE IF /\ run.clean
          /\ r.t.among = {}
          /\ r.t.searched = 0
          /\ ~r.st.web_search_mode
          /\ Len(run.words) + Len(r.t.pushed) <= capacity + 1
       THEN [clean |-> TRUE, words |-> run.words \o r.t.pushed]
  ELSE [clean |-> FALSE, words |-> <<>>]

\* the keyboard thread runs a statement with outcome r
KeyboardRuns(r) ==
  /\ Becomes(r.st)
  /\ key_pc' = after(r.t)
  /\ tray_pc' = disturbed(tray_pc, "keyboard")
  /\ tk_pc' = disturbed(tk_pc, "keyboard")
  /\ last' = report(r.t)
  /\ run' = run_after(r)

\* the tray thread runs a statement with outcome r
TrayRuns(r) ==
  /\ Becomes(r.st)
  /\ tray_pc' = after(r.t)
  /\ key_pc' = disturbed(key_pc, "tray")
  /\ tk_pc' = disturbed(tk_pc, "tray")
  /\ last' = report(r.t)
  /\ run' = run_after(r)

\* the Tk main loop runs a statement with outcome r
TkRuns(r) ==
  /\ Becomes(r.st)
  /\ tk_pc' = after(r.t)
  /\ key_pc' = disturbed(key_pc, "tk")
  /\ tray_pc' = disturbed(tray_pc, "tk")
  /\ last' = report(r.t)
  /\ run' = run_after(r)

\* the record of a popup thread that has built its popup
PopupBuilt == done([Idle EXCEPT !.thread = "popup", !.op = "popup"])

\* the thread started i-th at line 1162 of those still to run builds its
\* SuggestionPopup; it touches no field of the application
PopupRuns(i) ==
  /\ i \in DOMAIN starting
  /\ Becomes(SuggestionPopup(State, i))
  /\ last' = PopupBuilt
  /\ UNCHANGED <<key_pc, tray_pc, tk_pc, run>>

\* what the handlers of the application leave alone
engine_frame == <<keywords, call, engines, ge, reload_pc, match_pc>>

frame ==
  <<engine_frame, timers, offered, web_search_keyword, capacity, owned, taught>>

\* a key event is handed to on_key_press on the keyboard thread
KeyCalled(name) ==
  /\ key_pc.at = "idle"
  /\ KeyboardRuns(on_key_press(called("keyboard", "key", name, State), State,
                               name))

\* keyboard.on_press(self.on_key_press): a key event; the model types a
\* letter while the word in progress is shorter than MaxTyped and a
\* punctuation mark only after a word of MaxTyped characters
KeyPress(name) ==
  /\ (is_char_key(name) /\ ~isdigit(name)) =>
       IF name \in WORD_BOUNDARIES THEN Len(typed_chars) = MaxTyped
       ELSE Len(typed_chars) < MaxTyped
  /\ KeyCalled(name)
  /\ UNCHANGED frame

\* keyboard.add_hotkey(..., self.force_suggestion): the hotkey
ForceSuggestion ==
  /\ key_pc.at = "idle"
  /\ KeyboardRuns(force_suggestion(called("keyboard", "force", "", State), State))
  /\ UNCHANGED frame

\* the next statement of the handler in progress on the keyboard thread
KeyboardStep ==
  /\ key_pc.at # "idle"
  /\ RoomFor(key_pc)
  /\ \E order \in Orders(engine_keywords(ge_keywords)) :
       KeyboardRuns(statement(key_pc, State, ge_keywords, web_search_keyword,
                              order))

KeyboardThread == KeyboardStep /\ UNCHANGED frame

\* pystray.MenuItem("Force Suggestion", self.force_suggestion)
TrayForceSuggestion ==
  /\ tray_pc.at = "idle"
  /\ TrayRuns(force_suggestion(called("tray", "force", "", State), State))
  /\ UNCHANGED frame

\* pystray.MenuItem("Quick Search", self.quick_web_search)
QuickWebSearch ==
  /\ tray_pc.at = "idle"
  /\ TrayRuns(quick_web_search(called("tray", "quick_search", "", State), State))
  /\ UNCHANGED frame

\* the next statement of the handler in progress on the tray thread
TrayThread ==
  /\ tray_pc.at # "idle"
  /\ RoomFor(tray_pc)
  /\ \E order \in Orders(engine_keywords(ge_keywords)) :
       TrayRuns(statement(tray_pc, State, ge_keywords, web_search_keyword,
                          order))
  /\ UNCHANGED frame

\* a callback is called in the Tk main loop, for popup id when it is a
\* popup's
callback(op, id) == [called("tk", op, "", State) EXCEPT !.id = id]

\* a suggestion button of popup id: select(correction)
SelectCalled(id, correction, fail) ==
  /\ TkIdle
  /\ id \in DOMAIN popups
  /\ Contains(Take(popups[id].suggestions, 20), correction)
  /\ TkRuns(select(callback("accept", id), State, correction, fail))

PopupSelect(id, correction, fail) ==
  SelectCalled(id, correction, fail) /\ UNCHANGED frame

\* the Ignore button of popup id
IgnoreCalled(id) ==
  /\ TkIdle
  /\ id \in DOMAIN popups
  /\ TkRuns(on_ignore(callback("ignore", id), State))

PopupIgnore(id) == IgnoreCalled(id) /\ UNCHANGED frame

\* the Search button of popup id, which every popup has when
\* enable_web_search is on
PopupSearch(id) ==
  /\ TkIdle
  /\ enable_web_search
  /\ id \in DOMAIN popups
  /\ TkRuns(search_web(callback("search_web", id), State))
  /\ UNCHANGED frame

\* the timeout of popup id comes due
PopupTimeout(id) ==
  /\ TkIdle
  /\ id \in DOMAIN popups
  /\ TkRuns(popup_timeout(callback("timeout", id), State))
  /\ UNCHANGED frame

\* the next statement of the callback in progress in the Tk main loop
TkThread ==
  /\ tk_pc.at # "idle"
  /\ TkRuns(statement(tk_pc, State, ge_keywords, web_search_keyword, <<>>))
  /\ UNCHANGED frame

\* a popup thread runs
PopupThread == (\E i \in PopupIds : PopupRuns(i)) /\ UNCHANGED frame

\* the keys of the main specification: a letter and a word boundary
Keys == {"a", "space"}

Next ==
  \/ \E name \in Keys : KeyPress(name)
  \/ ForceSuggestion
  \/ KeyboardThread
  \/ \E id \in PopupIds, correction \in Range(keywords), fail \in FailSteps :
       PopupSelect(id, correction, fail)
  \/ \E id \in PopupIds : PopupIgnore(id)
  \/ \E id \in PopupIds : PopupSearch(id)
  \/ \E id \in PopupIds : PopupTimeout(id)
  \/ TkThread
  \/ PopupThread

Spec == Init /\ [][Next]_vars
(***************************************************************************)
(* The key handler on every key name in every state of the word in         *)
(* progress: a punctuation key can arrive when typed_chars is empty and    *)
(* when it holds a word.                                                   *)
(***************************************************************************)
KeyEvent(name) ==
  /\ IF is_char_key(name) /\ ~isdigit(name)
     THEN IF name \in WORD_BOUNDARIES THEN Len(typed_chars) <= MaxTyped
          ELSE Len(typed_chars) < MaxTyped
     ELSE name \in WORD_BOUNDARIES => Len(typed_chars) <= MaxTyped
  /\ KeyCalled(name)
  /\ UNCHANGED frame

KeysNext ==
  \/ \E name \in KeyNames : KeyEvent(name)
  \/ ForceSuggestion
  \/ KeyboardThread
  \/ PopupThread
  \/ \E id \in PopupIds : PopupTimeout(id)

KeysInit ==
  /\ keywords \in KeywordFiles
  /\ call = NoCall
  /\ SmallInit

SpecKeys == KeysInit /\ [][KeysNext]_vars

(***************************************************************************)
(* The window with two different words ("a" and "a."): key events and the *)
(* Accept, Ignore and Search buttons of a popup (Search opens the browser  *)
(* and then runs the handler of the Ignore button).  A force request       *)
(* leaves phrase_buffer as it is and is not among the actions.             *)
(***************************************************************************)
WindowKeys == {"a", ".", "space"}

WindowInit ==
  /\ keywords \in {k \in KeywordFiles : k # <<>>}
  /\ call = NoCall
  /\ SmallInit

WindowNext ==
  \/ \E name \in WindowKeys : KeyPress(name)
  \/ KeyboardThread
  \/ \E id \in PopupIds, correction \in Range(keywords) :
       PopupSelect(id, correction, "none")
  \/ \E id \in PopupIds : PopupIgnore(id)
  \/ \E id \in PopupIds : PopupSearch(id)
  \/ TkThread
  \/ PopupThread

SpecWindow == WindowInit /\ [][WindowNext]_vars

(***************************************************************************)
(* The Ignore and Search buttons of a popup, with the ownership of the     *)
(* window's entries recorded: which popups each entry was part of          *)
(***************************************************************************)
IgnoreInit ==
  /\ keywords \in {k \in KeywordFiles : k # <<>>}
  /\ call = NoCall
  /\ Constructed
  /\ capacity = max_phrase_length - 1
  /\ owned = TRUE
  /\ web_search_keyword = WebKeyword

IgnoreNext ==
  \/ \E name \in Keys : KeyPress(name)
  \/ KeyboardThread
  \/ PopupThread
  \/ \E id \in PopupIds : PopupIgnore(id)
  \/ \E id \in PopupIds : PopupSearch(id)
  \/ TkThread

SpecIgnore == IgnoreInit /\ [][IgnoreNext]_vars

(***************************************************************************)
(* Digits in the word in progress, with the popup callbacks running        *)
(* between the statements of the key handler                               *)
(***************************************************************************)
DigitKeys == {"a", "3", "space"}

\* the Learn button of popup id
PopupLearn(id) ==
  /\ TkIdle
  /\ id \in DOMAIN popups
  /\ TkRuns(popup_learn_word(callback("learn_button", id), State))
  /\ UNCHANGED frame

DigitsInit ==
  /\ keywords \in {k \in KeywordFiles : k # <<>>}
  /\ call = NoCall
  /\ SmallInit

DigitsNext ==
  \/ \E name \in DigitKeys : KeyPress(name)
  \/ KeyboardThread
  \/ \E id \in PopupIds, correction \in Range(keywords) :
       PopupSelect(id, correction, "none")
  \/ \E id \in PopupIds : PopupTimeout(id)
  \/ \E id \in PopupIds : PopupLearn(id)
  \/ TkThread
  \/ PopupThread

SpecDigits == DigitsInit /\ [][DigitsNext]_vars

(***************************************************************************)
(* The tray icon: its menu items run force_suggestion and quick_web_search *)
(* on the thread of the icon, beside the keyboard thread and the Tk loop   *)
(***************************************************************************)
TrayInit ==
  /\ keywords \in {k \in KeywordFiles : k # <<>>}
  /\ call = NoCall
  /\ AppInit

TrayNext ==
  \/ \E name \in Keys : KeyPress(name)
  \/ KeyboardThread
  \/ TrayForceSuggestion
  \/ TrayThread
  \/ PopupThread
  \/ \E id \in PopupIds : PopupTimeout(id)

SpecTray == TrayInit /\ [][TrayNext]_vars

(***************************************************************************)
(* The debounce against the web-search mode: key events with the tray's    *)
(* quick web search running between their statements                       *)
(***************************************************************************)
DebounceNext ==
  \/ \E name \in Keys : KeyPress(name)
  \/ KeyboardThread
  \/ QuickWebSearch
  \/ TrayThread

SpecDebounce == TrayInit /\ [][DebounceNext]_vars

(***************************************************************************)
(* The web search keyword: read from the configuration file as it is       *)
(* written there, or set in the settings window (update_web_keyword)       *)
(***************************************************************************)
\* the keywords a configuration file holds
WebKeywords == { <<"b">>, <<"B">> }

\* the texts of the entry field of the settings window
WebEntries == { <<"B">>, <<" ", "b">>, <<" ">> }

WebKeys == {"a", "b", "B", "space"}

\* the keyword files: one like the words typed, one with nothing in common
WebFiles == { << <<"a", " ", "a">> >>, << <<"x", "y", "z">> >> }

\* the Update button of the settings window
UpdateWebKeyword(entry) ==
  /\ TkIdle
  /\ web_search_keyword' = update_web_keyword(web_search_keyword, entry)
  /\ TkRuns(Then(done(callback("update_web_keyword", 0)), State))
  /\ UNCHANGED <<engine_frame, timers, offered, capacity, owned, taught>>

WebInit ==
  /\ keywords \in WebFiles
  /\ call = NoCall
  /\ Constructed
  /\ capacity = max_phrase_length - 1
  /\ owned = FALSE
  /\ web_search_keyword \in WebKeywords

WebNext ==
  \/ \E name \in WebKeys : KeyPress(name)
  \/ KeyboardThread
  \/ \E entry \in WebEntries : UpdateWebKeyword(entry)
  \/ PopupThread
  \/ \E id \in PopupIds : PopupTimeout(id)

SpecWeb == WebInit /\ [][WebNext]_vars

(***************************************************************************)
(* The timeout of a popup outliving its resolution.  self.after(timeout *  *)
(* 1000, self.destroy) is scheduled when the popup is built and is not     *)
(* cancelled by select or on_ignore, so it comes due after them.           *)
(***************************************************************************)
MaxTimers == 2

pending_resolutions ==
  <<engine_frame, offered, web_search_keyword, capacity, owned, taught>>

\* select, with the popup's timeout still scheduled
ResolveSelect(id, correction) ==
  /\ timers < MaxTimers
  /\ SelectCalled(id, correction, "none")
  /\ timers' = timers + 1
  /\ UNCHANGED pending_resolutions

\* on_ignore, with the popup's timeout still scheduled
ResolveIgnore(id) ==
  /\ timers < MaxTimers
  /\ IgnoreCalled(id)
  /\ timers' = timers + 1
  /\ UNCHANGED pending_resolutions

\* the timeout of a resolved popup comes due
LateTimeout ==
  /\ TkIdle
  /\ timers > 0
  /\ TkRuns(popup_late_timeout(callback("late_timeout", 0), State))
  /\ timers' = timers - 1
  /\ UNCHANGED pending_resolutions

TimersInit ==
  /\ keywords \in {k \in KeywordFiles : k # <<>>}
  /\ call = NoCall
  /\ SmallInit

TimersNext ==
  \/ \E name \in Keys : KeyPress(name)
  \/ KeyboardThread
  \/ \E id \in PopupIds, correction \in Range(keywords) :
       ResolveSelect(id, correction)
  \/ \E id \in PopupIds : ResolveIgnore(id)
  \/ \E id \in PopupIds : PopupTimeout(id)
  \/ TkThread
  \/ PopupThread
  \/ LateTimeout

SpecTimers == TimersInit /\ [][TimersNext]_vars

(***************************************************************************)
(* reload_keywords against a check_phrase call in another thread.  The     *)
(* reload button runs reload_keywords in the Tk main loop while the        *)
(* keyboard thread calls self.ge.check_phrase.  An engine object is a      *)
(* record of its three parts; each statement of GrammarEngine.__init__     *)
(* and each attribute read of check_phrase is a step of its own.           *)
(***************************************************************************)
MaxEngines == 3

\* what the keyword file can hold when it is read again
ReloadFiles ==
  { << <<"a", " ", "a">> >>, << <<"b">> >>, << <<"b">>, <<"a", " ", "a">> >>,
    <<>> }

ReloadQueries == { <<"a">>, <<"b">>, <<"a", " ", "b">>, <<>> }

\* an object whose __init__ has not assigned anything yet
NewEngine ==
  [keywords |-> Unbuilt, original_map |-> Unbuilt, word_index |-> Unbuilt]

\* the object that GrammarEngine(self.keywords) constructs, rebuilding the
\* published engine in place
reload_target_in_place(cur, heap) == cur

\* the object that GrammarEngine(self.keywords) constructs: a new one
reload_target(cur, heap) == Len(heap) + 1

allocate(heap, target) ==
  IF target > Len(heap) THEN Append(heap, NewEngine)
  ELSE [heap EXCEPT ![target] = NewEngine]

\* the learned words are gone: no completion in progress began with a
\* phrase that is learned now
forgotten(t) == [t EXCEPT !.known = FALSE]

\* what a statement of reload_keywords leaves alone
reload_frame ==
  <<typed_chars, phrase_buffer, suggestion_active, force_suggest_mode,
    web_search_mode, popups, starting, owner, call, tk_pc, match_pc, timers,
    offered, web_search_keyword, capacity, owned>>

\* a statement of reload_keywords has run in the Tk main loop, between the
\* statements of the handlers of the other threads
ReloadRuns ==
  /\ key_pc' = disturbed(key_pc, "tk")
  /\ tray_pc' = disturbed(tray_pc, "tk")
  /\ last' = [Stepping EXCEPT !.thread = "tk"]
  /\ run' = [clean |-> FALSE, words |-> <<>>]
  /\ UNCHANGED <<learned_words, ge, taught, reload_frame>>

\* the Reload button: self.keywords = self.load_keywords() (line 1077), the
\* keyword file holding `file`, and the call of GrammarEngine
ReloadLoad(file) ==
  /\ TkIdle
  /\ Len(engines) < MaxEngines
  /\ keywords' = file
  /\ engines' = allocate(engines, reload_target(ge, engines))
  /\ reload_pc' = [at |-> "keywords", target |-> reload_target(ge, engines)]
  /\ ReloadRuns

\* self.keywords = [self.normalize_text(k) for k in keywords]
ReloadBuildKeywords ==
  /\ reload_pc.at = "keywords"
  /\ engines' = [engines EXCEPT ![reload_pc.target].keywords = BuiltFrom(keywords)]
  /\ reload_pc' = [reload_pc EXCEPT !.at = "original_map"]
  /\ keywords' = keywords
  /\ ReloadRuns

\* self.original_map = {self.normalize_text(k): k for k in keywords}
ReloadBuildOriginalMap ==
  /\ reload_pc.at = "original_map"
  /\ engines' = [engines EXCEPT ![reload_pc.target].original_map = BuiltFrom(keywords)]
  /\ reload_pc' = [reload_pc EXCEPT !.at = "word_index"]
  /\ keywords' = keywords
  /\ ReloadRuns

\* self.word_index = self.build_word_index(), from the object's keywords
ReloadBuildWordIndex ==
  /\ reload_pc.at = "word_index"
  /\ engines' = [engines EXCEPT ![reload_pc.target].word_index =
                                   engines[reload_pc.target].keywords]
  /\ reload_pc' = [reload_pc EXCEPT !.at = "swap"]
  /\ keywords' = keywords
  /\ ReloadRuns

\* the handler reload_keywords as it returns
Reloaded == done([Idle EXCEPT !.thread = "tk", !.op = "reload"])

\* self.learned_words = set() on the constructed object (line 124) and
\* self.ge = <the constructed object> (line 1078): the learned words of the
\* application are those of the new engine
ReloadSwap ==
  /\ reload_pc.at = "swap"
  /\ ge' = reload_pc.target
  /\ learned_words' = {}
  /\ reload_pc' = ReloadIdle
  /\ key_pc' = forgotten(disturbed(key_pc, "tk"))
  /\ tray_pc' = forgotten(disturbed(tray_pc, "tk"))
  /\ last' = Reloaded
  /\ run' = [clean |-> FALSE, words |-> <<>>]
  /\ taught' = [live |-> {}, discarded |-> taught.discarded \cup taught.live]
  /\ UNCHANGED <<keywords, engines, reload_frame>>

\* what check_phrase leaves alone
match_frame ==
  <<keywords, appvars, call, engines, ge, key_pc, tray_pc, tk_pc, reload_pc,
    timers, offered, web_search_keyword, capacity, owned, taught>>

\* self.ge.check_phrase(phrase, min_similarity, partial_matching): the
\* receiver is read once
MatchBind(phrase, partial_matching) ==
  /\ match_pc.at = "idle"
  /\ match_pc' = [MatchIdle EXCEPT !.at = "prefix", !.eng = ge,
                                   !.phrase = phrase,
                                   !.partial = partial_matching]
  /\ UNCHANGED match_frame

\* one attribute read of check_phrase on its receiver
match_read(part, next) ==
  [match_pc EXCEPT !.at = next, !.read = Append(match_pc.read, part)]

\* the next lookup of a comprehension or loop over todo, or the statement
\* after it
next_lookup(todo, again, then) == IF todo # <<>> THEN again ELSE then

\* if partial_matching: input_words = norm_phrase.split(); if input_words:
\* (lines 205-207) the words the loop of line 209 runs over, none when the
\* block is skipped
input_words(phrase, partial_matching) ==
  IF partial_matching THEN split(normalize_text(phrase)) ELSE <<>>

\* for k in self.keywords (prefix matches, line 199); then the test of
\* partial_matching and of input_words, which read no part of the engine
MatchReadPrefix ==
  /\ match_pc.at = "prefix"
  /\ LET todo == input_words(match_pc.phrase, match_pc.partial)
     IN match_pc' =
          [match_read(engines[match_pc.eng].keywords,
                      next_lookup(todo, "partial", "similarity"))
             EXCEPT !.todo = todo]
  /\ UNCHANGED match_frame

\* if word in self.word_index (line 210), once for each word of the query
MatchReadPartial ==
  /\ match_pc.at = "partial"
  /\ match_pc' =
       IF has_key(build_word_index(engines[match_pc.eng].word_index.from),
                  Head(match_pc.todo))
       THEN match_read(engines[match_pc.eng].word_index, "partial_update")
       ELSE [match_read(engines[match_pc.eng].word_index,
                        next_lookup(Tail(match_pc.todo), "partial",
                                    "similarity"))
               EXCEPT !.todo = Tail(match_pc.todo)]
  /\ UNCHANGED match_frame

\* candidate_phrases.update(self.word_index[word]) (line 211), for a word
\* that is in the index
MatchReadPartialUpdate ==
  /\ match_pc.at = "partial_update"
  /\ match_pc' =
       [match_read(engines[match_pc.eng].word_index,
                   next_lookup(Tail(match_pc.todo), "partial", "similarity"))
          EXCEPT !.todo = Tail(match_pc.todo)]
  /\ UNCHANGED match_frame

\* if len(results) < MIN_SUGGESTIONS: the padding, or the return
after_results(results) ==
  IF Len(results) < MIN_SUGGESTIONS THEN "padding" ELSE "return"

\* the normalized phrases of sorted_matches[:MAX_SUGGESTIONS]
ranked_phrases(kws, phrase, partial_matching, order) ==
  LET ms == ranked_matches(kws, phrase, min_similarity, partial_matching,
                           order)
  IN [i \in DOMAIN ms |-> ms[i][1]]

\* for k in self.keywords (similarity matches); the matches are merged,
\* filtered and sorted
MatchReadSimilarity ==
  /\ match_pc.at = "similarity"
  /\ \E order \in Orders(engine_keywords(engines[match_pc.eng].keywords.from)) :
       LET todo == ranked_phrases(engines[match_pc.eng].keywords.from,
                                  match_pc.phrase, match_pc.partial, order)
       IN match_pc' =
            [match_read(engines[match_pc.eng].keywords,
                        next_lookup(todo, "results", after_results(<<>>)))
               EXCEPT !.todo = todo]
  /\ UNCHANGED match_frame

\* results = [self.original_map[phrase] for phrase, _ in sorted_matches[...]]
\* (line 240): one lookup for each match
MatchReadResults ==
  /\ match_pc.at = "results"
  /\ LET found == Append(match_pc.results,
                         original_map(engines[match_pc.eng].original_map.from,
                                      Head(match_pc.todo)))
     IN match_pc' =
          [match_read(engines[match_pc.eng].original_map,
                      next_lookup(Tail(match_pc.todo), "results",
                                  after_results(found)))
             EXCEPT !.todo = Tail(match_pc.todo), !.results = found]
  /\ UNCHANGED match_frame

\* remaining = [...][:MIN_SUGGESTIONS - len(results)];
\* results.extend(remaining) (lines 243-247): what results holds once the
\* comprehension has run through the keywords
extended(results, remaining) ==
  results \o Take(remaining, MIN_SUGGESTIONS - Len(results))

\* the comprehension of line 244 after a keyword: its next keyword, or, at
\* its end, lines 246-247 and the return statement
padding_next(pc, remaining) ==
  IF Tail(pc.todo) # <<>>
  THEN [pc EXCEPT !.at = "padding_test", !.todo = Tail(pc.todo),
                  !.remaining = remaining]
  ELSE [pc EXCEPT !.at = "return", !.todo = <<>>, !.remaining = remaining,
                  !.results = extended(pc.results, remaining)]

\* for k in self.keywords (line 244, the padding)
MatchReadPadding ==
  /\ match_pc.at = "padding"
  /\ LET todo == engine_keywords(engines[match_pc.eng].keywords.from)
     IN match_pc' =
          [match_read(engines[match_pc.eng].keywords,
                      next_lookup(todo, "padding_test", "return"))
             EXCEPT !.todo = todo]
  /\ UNCHANGED match_frame

\* if self.original_map[k] not in results (line 245)
MatchReadPaddingTest ==
  /\ match_pc.at = "padding_test"
  /\ match_pc' =
       IF Contains(match_pc.results,
                   original_map(engines[match_pc.eng].original_map.from,
                                Head(match_pc.todo)))
       THEN padding_next(match_read(engines[match_pc.eng].original_map,
                                    "padding_test"),
                         match_pc.remaining)
       ELSE match_read(engines[match_pc.eng].original_map, "padding_take")
  /\ UNCHANGED match_frame

\* self.original_map[k] (line 244): the entry of the padding, appended to
\* the list that becomes remaining
MatchReadPaddingTake ==
  /\ match_pc.at = "padding_take"
  /\ match_pc' =
       padding_next(match_read(engines[match_pc.eng].original_map,
                               "padding_take"),
                    Append(match_pc.remaining,
                           original_map(engines[match_pc.eng].original_map.from,
                                        Head(match_pc.todo))))
  /\ UNCHANGED match_frame

\* return results
MatchReturn ==
  /\ match_pc.at = "return"
  /\ match_pc' = MatchIdle
  /\ UNCHANGED match_frame

\* the phrases given to learn_word
LearnPool == { <<"a", " ", "a">> }

learn_frame ==
  <<call, engines, ge, reload_pc, match_pc, timers, offered,
    web_search_keyword, capacity, owned>>

\* self.ge.learn_word(word)
LearnWord(word) ==
  /\ TkIdle
  /\ TkRuns(learn_word(callback("learn", 0), State, word))
  /\ taught' = [taught EXCEPT !.live = taught.live \cup {word}]
  /\ UNCHANGED <<keywords, learn_frame>>

ReloadInit ==
  /\ keywords \in {k \in KeywordFiles : k # <<>>}
  /\ call = NoCall
  /\ AppInit

ReloadNext ==
  \/ \E file \in ReloadFiles : ReloadLoad(file)
  \/ ReloadBuildKeywords
  \/ ReloadBuildOriginalMap
  \/ ReloadBuildWordIndex
  \/ ReloadSwap
  \/ \E word \in LearnPool : LearnWord(word)
  \/ \E phrase \in ReloadQueries, partial_matching \in BOOLEAN :
       MatchBind(phrase, partial_matching)
  \/ MatchReadPrefix
  \/ MatchReadPartial
  \/ MatchReadPartialUpdate
  \/ MatchReadSimilarity
  \/ MatchReadResults
  \/ MatchReadPadding
  \/ MatchReadPaddingTest
  \/ MatchReadPaddingTake
  \/ MatchReturn

SpecReload == ReloadInit /\ [][ReloadNext]_vars

(***************************************************************************)
(* The suggestions emitted, as a record kept beside the program: the       *)
(* program itself keeps none (on_phrase_completed consults                 *)
(* suggestion_active, the two mode flags and learned_words only).  The     *)
(* keywords are reloaded between the statements of the key handler.        *)
(***************************************************************************)
\* the horizon of the record
recent_phrases_size == 2

\* the record after a statement that took the popup threads started from
\* `shown` to `now`
offered_after(record, shown, now) ==
  IF Len(now) > Len(shown)
  THEN LastN(record \o <<normalize_text(now[Len(now)].phrase)>>,
             IF Len(record) < recent_phrases_size THEN Len(record) + 1
             ELSE recent_phrases_size)
  ELSE record

recent_frame ==
  <<engine_frame, timers, web_search_keyword, capacity, owned, taught>>

\* on_key_press
RecentKey(name) ==
  /\ KeyCalled(name)
  /\ (is_char_key(name) /\ ~isdigit(name)) => Len(typed_chars) < MaxTyped
  /\ offered' = offered
  /\ UNCHANGED recent_frame

\* the next statement of the key handler; a popup it starts is recorded
RecentKeyboardThread ==
  /\ KeyboardStep
  /\ offered' = offered_after(offered, starting, starting')
  /\ UNCHANGED recent_frame

RecentInit ==
  /\ keywords \in {k \in KeywordFiles : k # <<>>}
  /\ call = NoCall
  /\ SmallInit

RecentNext ==
  \/ \E name \in Keys : RecentKey(name)
  \/ RecentKeyboardThread
  \/ \E id \in PopupIds : PopupIgnore(id)
  \/ \E id \in PopupIds : PopupTimeout(id)
  \/ TkThread
  \/ PopupThread
  \/ \E file \in KeywordFiles : ReloadLoad(file)
  \/ ReloadBuildKeywords
  \/ ReloadBuildOriginalMap
  \/ ReloadBuildWordIndex
  \/ ReloadSwap

SpecRecent == RecentInit /\ [][RecentNext]_vars

(***************************************************************************)
(* Learned words: GrammarEngine.learn_word in the Tk main loop, with key   *)
(* events and the tray's quick web search running between their           *)
(* statements                                                              *)
(***************************************************************************)
\* the keyword file when the application starts
LearnFiles == { << <<"a", " ", "a">> >> }

LearnInit ==
  /\ keywords \in LearnFiles
  /\ call = NoCall
  /\ SmallInit

LearnNext ==
  \/ \E name \in Keys : KeyPress(name)
  \/ KeyboardThread
  \/ QuickWebSearch
  \/ TrayThread
  \/ \E word \in LearnPool : LearnWord(word)

SpecLearn == LearnInit /\ [][LearnNext]_vars

(***************************************************************************)
(* The engine on its own: a GrammarEngine built from any keyword list of   *)
(* at most MaxKeywords pool entries answers one check_phrase call          *)
(***************************************************************************)
KeywordPool ==
  { <<"a", "b", "c">>, <<"x", "y", "z">>, <<"a", " ", "b">>, <<"b", " ", "a">>,
    <<"A", "-", "b">>, <<"a", "b">>, <<"a", " ", "y", "y">>, <<"a", " ", "a">>,
    <<".">> }

QueryPool ==
  KeywordPool \cup { <<>>, <<"a">>, <<"b">>, <<"a", "b", ".">>, <<"a", " ", "c">>,
                     <<"a", " ", "a">>, <<"c", " ", "b", " ", "a">> }

SimilarityPool == {Frac(0, 1), Frac(1, 4), Frac(1, 2), Frac(3, 4), Frac(1, 1)}

\* a keyword file of LongLen distinct two-letter lines: aa, ab, ..., zb
Letters == <<"a", "b", "c", "x", "y", "z">>
LongKeywords ==
  [i \in 1..LongLen |->
     <<Letters[((i - 1) \div 6) + 1], Letters[((i - 1) % 6) + 1]>>]

KeywordLists ==
  UNION {[1..n -> KeywordPool] : n \in 0..MaxKeywords} \cup {LongKeywords}

\* the iteration orders tried: all of them, or for the long list the load
\* order and its reverse
EngineOrders ==
  IF keywords = LongKeywords
  THEN {engine_keywords(keywords),
        [i \in DOMAIN keywords |->
           engine_keywords(keywords)[Len(keywords) + 1 - i]]}
  ELSE Orders(engine_keywords(keywords))

EngineInit ==
  /\ keywords \in KeywordLists
  /\ call = NoCall
  /\ AppInit

\* the call and its result, of which the first `matched` entries are matches
Called(phrase, min_sim, partial_matching, order, results) ==
  [made |-> TRUE, phrase |-> phrase, min_similarity |-> min_sim,
   partial_matching |-> partial_matching, order |-> order,
   results |-> padded(keywords, results), matched |-> Len(results)]

CheckPhrase(phrase, min_sim, partial_matching, order) ==
  /\ ~call.made
  /\ call' = Called(phrase, min_sim, partial_matching, order,
                     matched_results(keywords, phrase, min_sim,
                                     partial_matching, order))
  /\ UNCHANGED <<keywords, appvars, threadvars>>

EngineNext ==
  \E phrase \in QueryPool, min_sim \in SimilarityPool,
     partial_matching \in BOOLEAN,
     order \in EngineOrders :
    CheckPhrase(phrase, min_sim, partial_matching, order)

SpecEngine == EngineInit /\ [][EngineNext]_vars

(***************************************************************************)
(* normalize_text on its own: one call on any text of at most MaxText      *)
(* characters; call.results holds the one normalized text                  *)
(***************************************************************************)
\* a letter in both cases, a digit, the three hyphen characters, a
\* punctuation mark and two whitespace characters
TextChars == {"a", "A", "3", "-", "_", "'", ".", " ", "\t"}

Texts == UNION {[1..n -> TextChars] : n \in 0..MaxText}

NormalizeInit ==
  /\ keywords = <<>>
  /\ call \in {[NoCall EXCEPT !.phrase = t] : t \in Texts}
  /\ AppInit

Normalize ==
  /\ ~call.made
  /\ call' = [call EXCEPT !.made = TRUE,
                          !.results = <<normalize_text(call.phrase)>>]
  /\ UNCHANGED <<keywords, appvars, threadvars>>

SpecNormalize == NormalizeInit /\ [][Normalize]_vars

(***************************************************************************)
(* Properties of the engine                                                *)
(***************************************************************************)

\* C1 (SpecEngine): self-exclusion.  When the query normalizes to an indexed
\* phrase, no entry of the check_phrase result, matched or padded, normalizes
\* to the same text.
C1_SelfExclusion ==
  (call.made /\ normalize_text(call.phrase) \in original_map_keys(keywords))
  => \A i \in DOMAIN call.results :
       normalize_text(call.results[i]) # normalize_text(call.phrase)

\* the number of distinct normalized phrases in the index
index_size == Cardinality(original_map_keys(keywords))

\* C14 (SpecEngine): padding guarantee.  With min_similarity 1.0 and partial
\* matching off, the result of check_phrase has at least
\* min(MIN_SUGGESTIONS, index_size - 1) entries, whatever the query matches.
C14_PaddingGuarantee ==
  (call.made /\ FracEq(call.min_similarity, Frac(1, 1)) /\ ~call.partial_matching)
  => Len(call.results) >=
       (IF MIN_SUGGESTIONS < index_size - 1 THEN MIN_SUGGESTIONS
        ELSE index_size - 1)

\* a query that matches nothing in an index larger than MIN_SUGGESTIONS was
\* answered with MIN_SUGGESTIONS padded entries
C14_Witness ==
  /\ call.made /\ FracEq(call.min_similarity, Frac(1, 1)) /\ ~call.partial_matching
  /\ index_size - 1 > MIN_SUGGESTIONS
  /\ call.matched = 0
  /\ Len(call.results) = MIN_SUGGESTIONS

\* C16 (SpecEngine): the result of check_phrase, padding included, never has
\* more than MAX_SUGGESTIONS entries.
C16_AtMostMax ==
  call.made => Len(call.results) <= MAX_SUGGESTIONS

\* the query is a prefix of more than MAX_SUGGESTIONS indexed phrases and
\* the result was cut to MAX_SUGGESTIONS
C16_Witness ==
  /\ call.made
  /\ Cardinality({p \in original_map_keys(keywords) :
                    /\ startswith(p, normalize_text(call.phrase))
                    /\ p # normalize_text(call.phrase)}) > MAX_SUGGESTIONS
  /\ call.matched = MAX_SUGGESTIONS
  /\ Len(call.results) = MAX_SUGGESTIONS

\* C19 (SpecEngine): last-write-wins.  Every entry of a check_phrase result,
\* matched or padded, is the last loaded of the keywords that normalize to
\* its text; an earlier-loaded different spelling never shows.
C19_LastWriteWins ==
  call.made =>
    \A i \in DOMAIN call.results :
      \E j \in DOMAIN keywords :
        /\ keywords[j] = call.results[i]
        /\ \A k \in DOMAIN keywords :
             normalize_text(keywords[k]) = normalize_text(keywords[j])
               => (k <= j \/ keywords[k] = keywords[j])

\* two different keywords normalize to the same text, and the later-loaded
\* one is in the result of a call, as a match
C19_Witness ==
  /\ call.made
  /\ \E i, j \in DOMAIN keywords :
       /\ i < j
       /\ keywords[i] # keywords[j]
       /\ normalize_text(keywords[i]) = normalize_text(keywords[j])
       /\ \E r \in 1..call.matched : call.results[r] = keywords[j]

\* C18 (SpecNormalize): normalization is idempotent.  Normalizing a
\* normalized text returns it unchanged.
C18_Idempotent ==
  call.made => normalize_text(call.results[1]) = call.results[1]

\* a text with upper case, a hyphen and a whitespace run was normalized to
\* something else
C18_Witness ==
  /\ call.made
  /\ call.results[1] # call.phrase
  /\ call.results[1] # <<>>
  /\ \E i \in DOMAIN call.phrase : call.phrase[i] \in UpperLetters
  /\ \E i \in DOMAIN call.phrase : call.phrase[i] \in HyphenChars
  /\ \E i \in 1..(Len(call.phrase) - 1) :
       isspace(call.phrase[i]) /\ isspace(call.phrase[i + 1])

\* C13 (SpecReload): atomic reload.  Every part a check_phrase call has
\* read so far is built, and all of them come from the keyword list of the
\* one engine the call is bound to, which is complete; that engine is the
\* one published when the call started (the old index) even when a reload
\* has published a new one since.
C13_AtomicReload ==
  match_pc.at # "idle" =>
    /\ engines[match_pc.eng] = GrammarEngine(engines[match_pc.eng].keywords.from)
    /\ \A i \in DOMAIN match_pc.read :
         match_pc.read[i] = BuiltFrom(engines[match_pc.eng].keywords.from)

\* a call with partial matching has read all the parts of its engine: the
\* keywords for the prefix matches, the word index for the test and for the
\* bucket of the query word, the keywords for the similarity matches, the
\* original map for the lookup of its match, and the keywords and the
\* original map for the padding; a reload from another keyword list ran
\* from its start to the swap meanwhile
C13_Witness ==
  /\ match_pc.at = "return"
  /\ match_pc.partial
  /\ match_pc.results # <<>>
  /\ Len(match_pc.read) = 7
  /\ ge # match_pc.eng
  /\ engines[ge].keywords.from # engines[match_pc.eng].keywords.from

\* the call's normalized query and the matches its strategies produced
CallQuery == normalize_text(call.phrase)
CallMatches ==
  all_matches(keywords, CallQuery, call.partial_matching, call.order)

\* the normalized phrases of the matched part of the call's result
MatchedPhrases == [i \in 1..call.matched |-> normalize_text(call.results[i])]

\* p has a match in am
IsMatched(am, p) == \E i \in DOMAIN am : am[i][1] = p

\* the greatest of the scores p has in am, -1 when it has none
MaxScore(am, p) ==
  LET scores == {am[i][2] : i \in {k \in DOMAIN am : am[k][1] = p}}
  IN IF scores = {} THEN Frac(-1, 1)
     ELSE CHOOSE s \in scores : \A t \in scores : FracLeq(t, s)

\* the phrases the similarity strategy matched and no other strategy did
SimilarityOnly ==
  LET pm == prefix_matches(keywords, CallQuery)
      wm == IF call.partial_matching
            THEN partial_matches(keywords, CallQuery, call.order) ELSE <<>>
      sm == similarity_matches(keywords, CallQuery)
  IN {sm[i][1] : i \in DOMAIN sm}
       \ ({pm[i][1] : i \in DOMAIN pm} \cup {wm[i][1] : i \in DOMAIN wm})

\* in the ranking mp no phrase of the set late stands before a strict prefix
\* match of the query q
PrefixFirst(mp, q, late) ==
  \A i, j \in DOMAIN mp :
    (i < j /\ startswith(mp[j], q) /\ mp[j] # q) => mp[i] \notin late

\* C15 (SpecEngine): prefix priority.  When the normalized query is a strict
\* prefix of an indexed phrase p, the merged score of p is exactly 1.0 and no
\* phrase matched only by similarity stands before p in the result.
C15_PrefixPriority ==
  call.made =>
    /\ LET um == unique_matches(CallMatches)
       IN \A p \in original_map_keys(keywords) :
            (startswith(p, CallQuery) /\ p # CallQuery) =>
              \E k \in DOMAIN um : um[k][1] = p /\ um[k][2] = Frac(1, 1)
    /\ PrefixFirst(MatchedPhrases, CallQuery, SimilarityOnly)

\* a strict prefix match stands in the result, followed by a phrase matched
\* only by similarity
C15_Witness ==
  /\ call.made
  /\ \E i, j \in 1..call.matched :
       /\ i < j
       /\ startswith(MatchedPhrases[i], CallQuery)
       /\ MatchedPhrases[i] # CallQuery
       /\ MatchedPhrases[j] \in SimilarityOnly

\* the ranking mp holds, once each, the phrases whose greatest score in am
\* reaches min_sim (all of them unless it was cut at MAX_SUGGESTIONS), in
\* descending order of that score, ties broken by the shorter phrase first
Ranked(am, mp, sc, min_sim) ==
  /\ \A i, j \in DOMAIN mp : i < j => mp[i] # mp[j]
  /\ \A i \in DOMAIN mp : IsMatched(am, mp[i]) /\ FracLeq(min_sim, sc[i])
  /\ Len(mp) < MAX_SUGGESTIONS =>
       \A k \in DOMAIN am :
         FracLeq(min_sim, MaxScore(am, am[k][1])) => Contains(mp, am[k][1])
  /\ \A i, j \in DOMAIN mp :
       i < j =>
         \/ FracLess(sc[j], sc[i])
         \/ FracEq(sc[j], sc[i]) /\ Len(mp[i]) <= Len(mp[j])

\* the greatest scores in am of the phrases of mp
MaxScores(am, mp) == [i \in DOMAIN mp |-> MaxScore(am, mp[i])]

\* C17 (SpecEngine): ranking.  Each matched phrase whose greatest strategy
\* score reaches min_similarity enters the ranking, once; the matched part
\* of the result is in descending order of that score, ties broken by the
\* shorter normalized phrase first.
C17_Ranking ==
  call.made =>
    Ranked(CallMatches, MatchedPhrases,
           MaxScores(CallMatches, MatchedPhrases), call.min_similarity)

\* in am a phrase of mp has two different scores, and two phrases of mp tie
\* on the score sc with different lengths
MergeAndTie(am, mp, sc) ==
  /\ \E i \in DOMAIN mp :
       \E a, b \in DOMAIN am :
         /\ am[a][1] = mp[i] /\ am[b][1] = mp[i]
         /\ FracLess(am[a][2], am[b][2])
  /\ \E i, j \in DOMAIN mp :
       i < j /\ FracEq(sc[i], sc[j]) /\ Len(mp[i]) < Len(mp[j])

\* a phrase that two strategies scored differently is in the matched part,
\* and two matched phrases tie on the merged score with different lengths
C17_Witness ==
  /\ call.made
  /\ MergeAndTie(CallMatches, MatchedPhrases,
                 MaxScores(CallMatches, MatchedPhrases))

\* the window lengths n whose phrase check_combinations submits and whose
\* scoring returns a non-empty list, for the window buf
EligibleWindows(buf) ==
  {n \in 1..4 :
     /\ n <= Len(buf)
     /\ Len(JoinSpace(LastN(buf, n))) >= min_phrase_length
     /\ check_phrase(keywords, JoinSpace(LastN(buf, n)), min_similarity,
                     enable_partial_matching,
                     Distinct(engine_keywords(keywords))) # <<>>}

LongestWindow(buf, ns) ==
  JoinSpace(LastN(buf, CHOOSE n \in ns : \A m \in ns : m <= n))

\* the number of distinct words the query q and the phrase p share
SharedWords(q, p) == Cardinality(Range(split(q)) \cap Range(split(p)))

\* p has in the merge am the partial-word score 0.9 * shared / |query words|
\* and is in the matched part mp when that score reaches min_sim
EntersMerge(am, mp, q, p, min_sim) ==
  /\ \E i \in DOMAIN am :
       /\ am[i][1] = p
       /\ FracEq(am[i][2], Frac(9 * SharedWords(q, p), 10 * Len(split(q))))
  /\ FracLeq(min_sim, Frac(9 * SharedWords(q, p), 10 * Len(split(q))))
       => p \in Range(mp)

\* C23 (SpecEngine): partial-word strategy.  With partial matching on, every
\* indexed phrase that shares a word with the normalized query is in the
\* merge with the score 0.9 * |shared words| / |query words|, also when the
\* unscaled ratio is below 0.5, and is in the matched part of the result
\* whenever that score is at least min_similarity.
C23_PartialStrategy ==
  (call.made /\ call.partial_matching /\ call.matched < MAX_SUGGESTIONS)
    => \A p \in Range(engine_keywords(keywords)) :
         SharedWords(CallQuery, p) >= 1
           => EntersMerge(CallMatches, MatchedPhrases, CallQuery, p,
                          call.min_similarity)

\* C24 (SpecEngine): full overlap.  With partial matching on, an indexed
\* phrase that contains every word of the normalized query has the
\* partial-word score exactly 0.9 in the merge, also when the query repeats
\* a word; and no partial-word score is above 0.9.
C24_FullOverlap ==
  (call.made /\ call.partial_matching)
    => /\ \A p \in Range(engine_keywords(keywords)) :
            (split(CallQuery) # <<>>
             /\ Range(split(CallQuery)) \subseteq Range(split(p)))
              => \E i \in DOMAIN partial_matches(keywords, CallQuery, call.order) :
                   /\ partial_matches(keywords, CallQuery, call.order)[i][1] = p
                   /\ FracEq(partial_matches(keywords, CallQuery, call.order)[i][2],
                             Frac(9, 10))
       /\ \A i \in DOMAIN partial_matches(keywords, CallQuery, call.order) :
            FracLeq(partial_matches(keywords, CallQuery, call.order)[i][2],
                    Frac(9, 10))

\* the normalized phrases of the call's whole result
ResultPhrases == [i \in DOMAIN call.results |-> normalize_text(call.results[i])]

\* the indexed phrases whose merged score in am reaches min_sim
Reached(am, keys, min_sim) ==
  {k \in Range(keys) : IsMatched(am, k) /\ FracLeq(min_sim, MaxScore(am, k))}

\* the place in the load order keys of the entry rp[i]: when rp[i] is the
\* c-th entry of rp with its phrase, the place of the c-th line that gave
\* that phrase; 0 when there is no such line
LoadPlace(rp, keys, i) ==
  LET c == Cardinality({j \in 1..i : rp[j] = rp[i]})
      at == {n \in DOMAIN keys :
               /\ keys[n] = rp[i]
               /\ Cardinality({m \in 1..n : keys[m] = rp[i]}) = c}
  IN IF at = {} THEN 0 ELSE CHOOSE n \in at : TRUE

\* in the result rp every phrase outside `reached` is padding: there are
\* fewer than MIN_SUGGESTIONS reached phrases, it stands after all of them,
\* and such entries follow the load order keys
PaddingPlaced(rp, reached, keys) ==
  \A i \in DOMAIN rp :
    rp[i] \notin reached =>
      /\ Cardinality(reached) < MIN_SUGGESTIONS
      /\ LoadPlace(rp, keys, i) > 0
      /\ \A j \in DOMAIN rp :
           /\ rp[j] \in reached => j < i
           /\ (j < i /\ rp[j] \notin reached)
                => LoadPlace(rp, keys, j) < LoadPlace(rp, keys, i)

\* C25 (SpecEngine): filter and padding placement.  A phrase whose merged
\* score is below min_similarity is in the result only as padding: only when
\* fewer than MIN_SUGGESTIONS phrases reach min_similarity, after every
\* phrase that reached it, and in load order.
C25_PaddingPlacement ==
  call.made =>
    PaddingPlaced(ResultPhrases,
                  Reached(CallMatches, engine_keywords(keywords),
                          call.min_similarity),
                  engine_keywords(keywords))

\* a result with a matched part followed by two different padded phrases
C25_Witness ==
  /\ call.made
  /\ call.matched >= 1
  /\ Len(call.results) >= call.matched + 2
  /\ call.results[call.matched + 1] # call.results[call.matched + 2]
  /\ normalize_text(call.results[call.matched + 1])
       \notin Reached(CallMatches, engine_keywords(keywords), call.min_similarity)

\* C26 (SpecEngine): the list returned by check_phrase never holds the same
\* phrase twice, for every keyword list, lists with identical keywords or
\* keywords that normalize identically included.
C26_NoDuplicates ==
  call.made =>
    \A i, j \in DOMAIN call.results : i < j => call.results[i] # call.results[j]

\* the words and phrases the index is asked about: those of the keyword and
\* query pools, and a word that is in none of them
AskedPhrases == {normalize_text(t) : t \in QueryPool} \cup Range(engine_keywords(keywords))
AskedWords == UNION {Range(split(p)) : p \in AskedPhrases} \cup {<<"z", "z">>}

\* the index holds exactly the pairs (w, p) with p in keys and w a word of p,
\* each once, under one key per word, and no key without a phrase
IndexExact(index, keys) ==
  /\ \A i, j \in DOMAIN index : i < j => index[i][1] # index[j][1]
  /\ {index[i][1] : i \in DOMAIN index} = UNION {Range(split(k)) : k \in Range(keys)}
  /\ \A i \in DOMAIN index :
       \A a, b \in DOMAIN index[i][2] : a < b => index[i][2][a] # index[i][2][b]
  /\ \A w \in AskedWords, p \in AskedPhrases :
       Contains(bucket(index, w), p) <=> (p \in Range(keys) /\ w \in Range(split(p)))
  /\ \A w \in AskedWords :
       ~has_key(index, w) => (bucket(index, w) = <<>> /\ w \notin UNION {Range(split(k)) : k \in Range(keys)})

\* the index is exact and check_phrase's lookup of a word is its bucket
SameLookups(index, keys) ==
  /\ IndexExact(index, keys)
  /\ \A w \in AskedWords : word_index(keywords, w) = bucket(index, w)

\* C27 (SpecEngine): inverted index.  After build, p is in the bucket of w
\* exactly when p is an indexed phrase and w is one of its words; a bucket
\* holds a phrase once, also when the word is repeated in the phrase or the
\* phrase is loaded twice; a word of no phrase has no bucket and its lookup
\* is empty.  The lookup check_phrase makes is that bucket.
C27_InvertedIndex ==
  SameLookups(build_word_index(keywords), engine_keywords(keywords))

\* a call with partial matching on an index built from a phrase that repeats
\* a word and is loaded twice, with a query word that has no bucket
C27_Witness ==
  /\ call.made /\ call.partial_matching
  /\ \E i, j \in DOMAIN keywords :
       /\ i < j
       /\ normalize_text(keywords[i]) = normalize_text(keywords[j])
       /\ \E a, b \in DOMAIN split(normalize_text(keywords[i])) :
            a < b /\ split(normalize_text(keywords[i]))[a]
                       = split(normalize_text(keywords[i]))[b]
  /\ \E k \in DOMAIN split(CallQuery) :
       word_index(keywords, split(CallQuery)[k]) = <<>>

\* s is t with some of its elements left out
IsSubsequence(s, t) ==
  \E f \in [DOMAIN s -> DOMAIN t] :
    /\ \A i \in DOMAIN s : s[i] = t[f[i]]
    /\ \A i, j \in DOMAIN s : i < j => f[i] < f[j]

\* every phrase of the ranked matches rm, and every phrase of keys when
\* padding is needed, is a key of original_map; no entry of the result is
\* a lookup miss
LookupsHit(rm, keys, mapkeys, results) ==
  /\ \A i \in DOMAIN rm : rm[i][1] \in mapkeys
  /\ Len(rm) < MIN_SUGGESTIONS => Range(keys) \subseteq mapkeys
  /\ \A i \in DOMAIN results : results[i] # KeyError

\* C30 (SpecEngine): scoring is total.  For every keyword list (keywords
\* that normalize to the empty string or collide included), query,
\* min_similarity and partial flag, every normalized phrase check_phrase
\* looks up in original_map, from the ranked matches and from the padding,
\* is one of its keys, and the call returns a list.
C30_Total ==
  call.made =>
    LookupsHit(ranked_matches(keywords, call.phrase, call.min_similarity,
                              call.partial_matching, call.order),
               engine_keywords(keywords), original_map_keys(keywords),
               call.results)

\* a keyword normalizes to the empty string, and the call looked up both a
\* ranked match and a padded phrase
C30_Witness ==
  /\ call.made
  /\ \E i \in DOMAIN keywords : normalize_text(keywords[i]) = <<>>
  /\ call.matched >= 1
  /\ Len(call.results) > call.matched

\* the first half of C32 on the engine alone (SpecEngine): a call of
\* check_phrase on an engine with keywords returns a non-empty list, and an
\* engine without keywords returns the empty list
NonEmptyResults == call.made => (call.results # <<>> <=> keywords # <<>>)

(***************************************************************************)
(* Properties of the application.  A step of a behaviour is one statement  *)
(* of one thread; last' names the thread, and is the record of the handler *)
(* when the statement was its last.                                        *)
(***************************************************************************)
\* the handler in progress on the thread that runs the step, as it stands
\* before the statement (Idle when the step is the call of a handler)
stepped ==
  IF last'.thread = "keyboard" THEN key_pc
  ELSE IF last'.thread = "tray" THEN tray_pc
  ELSE IF last'.thread = "tk" THEN tk_pc
  ELSE Idle

\* the same handler after the statement (Idle when it has returned)
stepped_to ==
  IF last'.thread = "keyboard" THEN key_pc'
  ELSE IF last'.thread = "tray" THEN tray_pc'
  ELSE IF last'.thread = "tk" THEN tk_pc'
  ELSE Idle

\* the statement starts the thread of a popup
Emits == Len(starting') > Len(starting)

\* the statement leaves the program's state as it is
SameProgramState ==
  /\ typed_chars' = typed_chars
  /\ phrase_buffer' = phrase_buffer
  /\ suggestion_active' = suggestion_active
  /\ force_suggest_mode' = force_suggest_mode
  /\ web_search_mode' = web_search_mode
  /\ popups' = popups
  /\ starting' = starting
  /\ learned_words' = learned_words

\* C2: never two suggestions at once.  The thread of a popup is started
\* while an earlier popup is still on screen, or its thread still about to
\* build it, only as a forced resubmission.
C2_OneOutstanding ==
  [][(Emits /\ (popups # <<>> \/ starting # <<>>))
       => (force_suggest_mode \/ stepped.op = "force")]_vars

\* C3 (SpecDebounce): debounce.  A phrase completion whose guard finds
\* suggestion_active set and no force-resubmit active returns from the
\* guard, and a completion that began in Pending with no force-resubmit
\* emits no suggestion and changes no state (so two of them in a row emit
\* none).
C3_Debounce ==
  [][/\ (stepped.at = "1129w" /\ suggestion_active /\ ~force_suggest_mode)
          => stepped_to.at \in {"idle", "1123", "1116"}
     /\ stepped.pend => SameProgramState]_vars

\* the guard of line 1129 alone (SpecDebounce): a phrase completion that
\* finds suggestion_active set, the force flag clear and the web-search mode
\* clear when its guard reads them returns from the guard, having changed no
\* state
GuardSuppresses ==
  [][/\ (stepped.at = "1129" /\ suggestion_active)
          => (SameProgramState /\ stepped_to.at = "1129f")
     /\ (stepped.at = "1129f" /\ ~force_suggest_mode)
          => (SameProgramState /\ stepped_to.at = "1129w")
     /\ (stepped.at = "1129w" /\ ~web_search_mode)
          => /\ SameProgramState
             /\ stepped_to.at \in {"idle", "1123", "1116"}
             /\ last'.op = "step"
                  => stepped_to.suppressed = stepped.suppressed + 1
             /\ last'.op # "step"
                  => last'.suppressed = stepped.suppressed + 1]_vars

\* a key handler ran into the debounce: after the popup it started for a
\* window, it suppressed the completion of a shorter window that is long
\* enough to be matched
SuppressionReached ==
  /\ last.op = "key" /\ last.emitted = 1 /\ last.suppressed > 0
  /\ suggestion_active /\ ~force_suggest_mode /\ ~web_search_mode

\* C4: each resolution of a suggestion (accept, ignore, timeout) leaves
\* suggestion_active False when it returns.
C4_ResolutionsReachIdle ==
  [][last'.op \in {"accept", "ignore", "timeout"} => ~suggestion_active']_vars

\* C5: window eviction.  When capacity + 1 words have been pushed by key
\* events alone, starting from the empty window, phrase_buffer holds
\* exactly the capacity most recent of them, in typing order.
C5_WindowEviction ==
  [][(last'.op = "key" /\ run'.clean /\ Len(run'.words) = capacity + 1)
       => phrase_buffer' = LastN(run'.words, capacity)]_vars

\* C6: digit invalidation.  A digit key event empties typed_chars and pushes
\* nothing; a boundary after it, with typed_chars still empty, pushes
\* nothing; a pushed word is the trimmed typed_chars the boundary event was
\* called with and holds no digit, and no word of phrase_buffer ever holds
\* one.
C6_DigitInvalidation ==
  [][/\ last'.op = "key" =>
          /\ isdigit(last'.key) =>
               (typed_chars' = <<>> /\ last'.pushed = <<>>
                /\ phrase_buffer' = phrase_buffer)
          /\ (last'.key \in WORD_BOUNDARIES /\ last'.typed = <<>>) =>
               (last'.pushed = <<>> /\ phrase_buffer' = phrase_buffer)
          /\ last'.pushed # <<>> =>
               (last'.pushed = <<strip(last'.typed)>>
                /\ ~HasDigit(last'.pushed[1]))
     /\ \A i \in DOMAIN phrase_buffer' : ~HasDigit(phrase_buffer'[i])]_vars

\* a digit key has arrived on a word in progress, after an earlier word was
\* pushed: it has emptied typed_chars and pushed nothing
C6_Witness ==
  /\ last.op = "key" /\ isdigit(last.key) /\ last.typed # <<>>
  /\ typed_chars = <<>>
  /\ last.pushed = <<>>
  /\ phrase_buffer # <<>>

\* C7: every key name of WORD_BOUNDARIES acts as a boundary.  Called with a
\* non-empty digit-free typed_chars (not the web-search keyword) it empties
\* typed_chars and pushes the trimmed word.
C7_BoundaryKeys ==
  [][(/\ last'.op = "key"
      /\ last'.key \in WORD_BOUNDARIES
      /\ strip(last'.typed) # <<>>
      /\ ~HasDigit(last'.typed)
      /\ lower_text(strip(last'.typed)) # web_search_keyword)
       => (typed_chars' = <<>> /\ last'.pushed = <<strip(last'.typed)>>)]_vars

\* C8: accept.  When select returns after apply_correction ran through,
\* typed_chars and phrase_buffer are empty, suggestion_active is False, and
\* exactly the pair (phrase of the resolved popup, chosen correction) was
\* handed over, once.
C8_Accept ==
  [][(last'.op = "accept" /\ last'.fail \in {"none", "activate"})
       => /\ typed_chars' = <<>>
          /\ phrase_buffer' = <<>>
          /\ ~suggestion_active'
          /\ popups' = remove_at(popups, tk_pc.id)
          /\ last'.applied = << <<popups[tk_pc.id].phrase, last'.correction>> >>
          /\ Contains(popups[tk_pc.id].suggestions, last'.correction)]_vars

\* C9: ApplicationError.  When a step of apply_correction fails, the failure
\* is reported and typed_chars and phrase_buffer are still cleared and
\* suggestion_active is False when select returns.
C9_ApplicationError ==
  [][(last'.op = "accept" /\ last'.fail # "none")
       => /\ last'.reported
          /\ typed_chars' = <<>>
          /\ phrase_buffer' = <<>>
          /\ ~suggestion_active']_vars

\* C10: ignore.  A statement of the ignore of a popup leaves typed_chars
\* alone and removes from phrase_buffer nothing but an entry that was part
\* of the popup's phrase when it was emitted; when the ignore returns no
\* such entry is left.
C10_Ignore ==
  [][(last'.thread = "tk" /\ tk_pc.op = "ignore")
       => /\ typed_chars' = typed_chars
          /\ \/ phrase_buffer' = phrase_buffer
             \/ \E i \in DOMAIN phrase_buffer :
                  /\ tk_pc.id \in owner[i]
                  /\ phrase_buffer' = remove_at(phrase_buffer, i)
          /\ last'.op = "ignore" =>
               \A i \in DOMAIN phrase_buffer : tk_pc.id \notin owner[i]]_vars

\* C11: a force-resubmit request bypasses the suppression exactly once.  When
\* force_suggestion returns from the one phrase completion it triggers,
\* whatever the outcome, force_suggest_mode is False again.
C11_ForceOnce ==
  [][last'.op = "force" => ~force_suggest_mode']_vars

\* C12: single-writer discipline.  While a key handler is between two of
\* its statements, no statement of a resolution callback (apply_correction,
\* clear_phrase_buffer) changes typed_chars, phrase_buffer or
\* suggestion_active.
C12_SingleWriter ==
  [][(key_pc.op = "key" /\ last'.thread = "tk"
      /\ tk_pc.op \in {"accept", "ignore", "search_web"})
       => /\ typed_chars' = typed_chars
          /\ phrase_buffer' = phrase_buffer
          /\ suggestion_active' = suggestion_active]_vars

\* C20: an empty keyword list (an empty file, or a failed load) gives an
\* empty index.  check_phrase then returns the empty list for every query,
\* and no statement of a key handler, a force request or another handler
\* emits a suggestion or sets suggestion_active.
C20_EmptyIndex ==
  keywords = <<>> =>
    /\ \A q \in QueryPool, min_sim \in SimilarityPool, partial \in BOOLEAN :
         check_phrase(keywords, q, min_sim, partial, <<>>) = <<>>
    /\ popups = <<>>
    /\ starting = <<>>
    /\ ~suggestion_active
    /\ last.emitted = 0

\* with the empty index a force request has submitted a window that is long
\* enough to be matched, and has returned
C20_Witness ==
  /\ keywords = <<>>
  /\ last.op = "force"
  /\ Len(last.phrase) >= min_phrase_length
  /\ force_suggest_mode

\* C21 (SpecTimers): when the timeout of a suggestion comes due after
\* accept or ignore resolved it, it changes none of typed_chars,
\* phrase_buffer and suggestion_active; a newer pending suggestion stays
\* pending.
C21_LateTimeoutNoOp ==
  [][last'.op = "late_timeout"
       => /\ typed_chars' = typed_chars
          /\ phrase_buffer' = phrase_buffer
          /\ suggestion_active' = suggestion_active]_vars

\* a late timeout has come due while a newer suggestion is pending
C21_Witness ==
  /\ last.op = "late_timeout"
  /\ suggestion_active
  /\ popups # <<>>
  /\ phrase_buffer # <<>>

\* C22 (SpecTray): a key event that pushes a word, with no resolution
\* running between its statements, emits at most one suggestion, and it is
\* for the longest of the last-n-word windows (n = min(4, window length)
\* down to 1) that is at least min_phrase_length long and whose scoring
\* returns a non-empty list; handled with no other thread running at all
\* and outside the web-search mode, it emits one whenever there is such a
\* window.
C22_CombinationCheck ==
  [][/\ (stepped.op = "key" /\ Emits /\ "tk" \notin stepped.among)
          => /\ stepped.emitted = 0
             /\ EligibleWindows(stepped.window) # {}
             /\ stepped.phrase =
                  LongestWindow(stepped.window, EligibleWindows(stepped.window))
     /\ (/\ last'.op = "key" /\ last'.pushed # <<>>
         /\ last'.among = {} /\ last'.searched = 0
         /\ EligibleWindows(last'.window) # {})
          => last'.emitted = 1]_vars

\* the same for a key event handled with no other thread running between
\* its statements (SpecTray)
CombinationCheckAlone ==
  [][/\ (stepped.op = "key" /\ Emits /\ stepped.among = {})
          => /\ stepped.emitted = 0
             /\ EligibleWindows(stepped.window) # {}
             /\ stepped.phrase =
                  LongestWindow(stepped.window, EligibleWindows(stepped.window))
     /\ (/\ last'.op = "key" /\ last'.pushed # <<>>
         /\ last'.among = {} /\ last'.searched = 0
         /\ EligibleWindows(last'.window) # {})
          => last'.emitted = 1]_vars

\* a pushed word emitted one suggestion for a window of three words, and
\* the shorter window after it was passed over
C22_Witness ==
  /\ last.op = "key"
  /\ last.pushed # <<>>
  /\ last.emitted = 1
  /\ last.suppressed >= 1
  /\ "tk" \notin last.among
  /\ Len(last.window) = 3

\* C28 (SpecWindow): capacity invariant.  After any statement phrase_buffer holds at most
\* max_phrase_length words (the capacity it was built with), in the order
\* in which they were completed: a statement only removes words, and the
\* append of the key handler puts its word at the end.
C28_Capacity ==
  [][/\ Len(phrase_buffer') <= capacity
     /\ \/ IsSubsequence(phrase_buffer', phrase_buffer)
        \/ /\ last'.thread = "keyboard"
           /\ key_pc.at = "1113"
           /\ IsSubsequence(phrase_buffer', phrase_buffer \o <<key_pc.word>>)
           /\ phrase_buffer'[Len(phrase_buffer')] = key_pc.word]_vars

\* a key event filled the window with two different words, in the order
\* in which they were completed, and evicted the older one
C28_Witness ==
  /\ last.op = "key"
  /\ Len(last.window) = capacity
  /\ last.window[1] # last.window[Len(last.window)]
  /\ phrase_buffer = Tail(last.window)

\* the key name is one the handler has no branch for, or a backspace or a
\* word boundary arriving while the word in progress tc is empty
IgnoredKey(name, tc) ==
  \/ name \in LongKeyNames \ (WORD_BOUNDARIES \cup {"backspace"})
  \/ name = "backspace" /\ tc = <<>>
  \/ name \in WORD_BOUNDARIES /\ tc = <<>>

\* C29 (SpecKeys): ignored keys.  A key event whose name is neither a single
\* printable character, nor a word boundary, nor backspace, a backspace on
\* an empty typed_chars and a word boundary on an empty typed_chars leave
\* typed_chars, phrase_buffer, suggestion_active and the force flag as they
\* were, push no word and emit nothing.
C29_IgnoredKeys ==
  [][(/\ last'.op = "key"
      /\ key_pc.at = "idle"
      /\ IgnoredKey(last'.key, typed_chars))
       => /\ typed_chars' = typed_chars
          /\ phrase_buffer' = phrase_buffer
          /\ suggestion_active' = suggestion_active
          /\ force_suggest_mode' = force_suggest_mode
          /\ last'.pushed = <<>>
          /\ last'.emitted = 0]_vars

\* C31 (SpecRecent): RecentlySeen suppression.  A key event emits no
\* suggestion for a normalized phrase that is among the recent_phrases_size
\* phrases most recently offered.
C31_RecentlySeen ==
  [][(Emits /\ stepped.op = "key")
       => normalize_text(stepped.phrase) \notin Range(offered)]_vars

\* C34 (SpecLearn): learned phrases.  A phrase completion that begins after
\* learn_word(p), with a phrase whose normalized form is normalize_text(p)
\* and with no reload since, emits no suggestion; a reload leaves no learned
\* word.
C34_LearnedPhrases ==
  [][/\ Emits => ~stepped.known
     /\ last'.op = "reload" => learned_words' = {}]_vars

\* the second half alone (SpecReload): the step that publishes the new
\* engine leaves no learned word, whatever was learned before it
ReloadForgetsLearned ==
  [][last'.op = "reload" => learned_words' = {}]_vars

\* a word was learned and a reload has discarded it since
LearnedThenReloaded ==
  /\ last.op = "reload"
  /\ taught.discarded # {}
  /\ learned_words = {}

\* a window that is submitted while not suppressed, is long enough and is
\* not a learned phrase goes on to the scoring, the scoring returns a list
\* that is not empty, suggestion_active is set and the popup's thread is
\* started; web: the web-search mode is excepted
WindowsEmit(web) ==
  /\ (/\ \/ stepped.at = "1129" /\ ~suggestion_active
         \/ stepped.at = "1129f" /\ force_suggest_mode
         \/ stepped.at = "1129w" /\ web_search_mode
      /\ Len(stepped.phrase) >= min_phrase_length)
       => stepped_to.at = "1136"
  /\ stepped.at = "1136" => stepped_to.at \in {"1138", "1141"}
  /\ (stepped.at = "1138"
      /\ normalize_text(stepped.phrase) \notin learned_words)
       => stepped_to.at = "1141"
  /\ (stepped.at = "1141" /\ (web => ~web_search_mode))
       => stepped_to.at = "1145"
  /\ stepped.at = "1145"
       => (stepped_to.at = "1150" /\ stepped_to.suggestions # <<>>)
  /\ stepped.at = "1150" => (stepped_to.at = "1162" /\ suggestion_active')
  /\ stepped.at = "1162"
       => starting' = Append(starting, [phrase |-> stepped.phrase,
                                        suggestions |-> stepped.suggestions])

\* C32 (SpecWeb): with a non-empty keyword list the scoring of a window is
\* never empty, and every window of at least min_phrase_length characters
\* that is not a learned phrase and is submitted while not suppressed emits
\* a suggestion and sets suggestion_active.
C32_EveryWindow ==
  [][keywords # <<>> => WindowsEmit(FALSE)]_vars

\* the same for the windows that find the web-search mode clear when line
\* 1141 reads it (SpecWeb, where the keyboard thread alone sets the mode)
EveryWindowOutsideWebSearch ==
  [][keywords # <<>> => WindowsEmit(TRUE)]_vars

\* a window that has nothing in common with the only keyword has been
\* answered with a suggestion, the keyword itself
UnrelatedWindowAnswered ==
  /\ keywords = << <<"x", "y", "z">> >>
  /\ last.op = "key"
  /\ last.emitted = 1
  /\ suggestion_active
  /\ popups # <<>>
  /\ popups[Len(popups)] =
       [phrase |-> <<"a", " ", "a">>, suggestions |-> << <<"x", "y", "z">> >>]

\* the web-search mode, for the words that `same` takes for the keyword
WebSearchMode(same(_)) ==
  /\ (stepped.at = "1108" /\ enable_web_search /\ same(stepped.word))
       => stepped_to.at = "1110"
  /\ stepped.at = "1110"
       => /\ web_search_mode'
          /\ phrase_buffer' = phrase_buffer
          /\ last'.op = "key" /\ last'.pushed = <<>>
  /\ Emits => ~web_search_mode
  /\ (stepped.at = "1141" /\ web_search_mode)
       => /\ stepped_to.searched = stepped.searched + 1
          /\ stepped_to.at = IF clear_buffer_after_search THEN "1181" ELSE "1184"
  /\ stepped.at = "1181" => phrase_buffer' = <<>>
  /\ stepped.at = "1182" => typed_chars' = <<>>
  /\ stepped.at = "1184" => ~web_search_mode'
  /\ stepped.at = "1185" => ~suggestion_active'

EqualsIgnoringCase(word) == lower_text(word) = lower_text(web_search_keyword)
EqualsLowered(word) == lower_text(word) = web_search_keyword

\* C33 (SpecWeb): web-search keyword.  With enable_web_search on, a
\* completed word that equals web_search_keyword case-insensitively is not
\* pushed onto phrase_buffer and sets web_search_mode; while web_search_mode
\* is set no suggestion is emitted, and a phrase completion of at least
\* min_phrase_length characters that finds the mode set performs the
\* search, resets web_search_mode and suggestion_active and, with
\* clear_buffer_after_search, empties typed_chars and phrase_buffer.
C33_WebSearchKeyword == [][WebSearchMode(EqualsIgnoringCase)]_vars

\* the same with the word lowered and the keyword taken as it is configured
\* (SpecWeb)
WebSearchWithLoweredWord == [][WebSearchMode(EqualsLowered)]_vars

\* a search has been performed for a window completed in web-search mode
WebSearchReached ==
  /\ last.op = "key"
  /\ last.searched = 1
  /\ web_search_keyword = <<"b">>

====
